---- MODULE Spec2Model ----
(***************************************************************************)
(* Model of the Tailscale Funnel plugin (index.ts): the availability       *)
(* prober, the single-slot funnel controller, the hostname change monitor  *)
(* and the plugin's init / shutdown; of the counters of stats.ts; and of   *)
(* the response builders of webmcp-tools.ts.                               *)
(*                                                                         *)
(* Strings are sequences of characters, so that the URL construction and   *)
(* the substring substitution of the monitor are computed, not assumed.    *)
(* A nullable value is a sequence of length 0 (null) or 1 (the value); a   *)
(* nullable string is the empty sequence when null (the code never stores  *)
(* an empty string in a nullable string: `x || null`).                     *)
(***************************************************************************)
EXTENDS Integers, Sequences, FiniteSets, TLC

VARIABLES
    ctx,                      \* plugin context: Null or Some([events |-> BOOLEAN])
    hostname,                 \* cached hostname: Null or a non-empty string
    available,                \* cached verdict: Null, Some(TRUE), Some(FALSE)
    activeFunnel,             \* the single slot: Null or Some(FunnelInfo & pid)
    pollTimer,                \* handle of the interval timer: Null or Some(id)
    hostnameChangeCallbacks,  \* registry: sequence of callback identifiers
    registered,               \* the "funnel" extension is registered with the host
    liveTimers,               \* interval timers of the runtime that are not cleared
    errPending,               \* ports whose spawned process has an 'error' event due
    statusQueries,            \* status queries of the prober since the last reset
    last,                     \* the call that settled last, with what it issued
    stats,                    \* stats.ts: the counters and startedAt
    given,                    \* per counter, the amounts given since the last reset
    snapshot,                 \* the object a caller got from getStats, Null before
    view,                     \* a response builder: its arguments and its result
    agent,                    \* the agent's report once it has settled, Null before
    calls,                    \* per caller, the expose call it has in flight
    procs                     \* the processes spawned: exposures up, failed starts

pluginVars == << ctx, hostname, available, activeFunnel, pollTimer,
                 hostnameChangeCallbacks, registered, liveTimers, errPending,
                 statusQueries, last >>
statsVars == << stats, given, snapshot >>
raceVars == << calls, procs >>
vars == << pluginVars, statsVars, view, agent, raceVars >>

----------------------------------------------------------------------------
(* Bounds of the model *)

MaxCallbacks == 2
MaxTimers == 2

----------------------------------------------------------------------------
(* Nullable values *)

Null == << >>
Some(x) == << x >>
Get(o) == o[1]

----------------------------------------------------------------------------
(* Strings *)

Https == << "h", "t", "t", "p", "s", ":", "/", "/" >>
Slash == << "/" >>

\* Index of the first occurrence of pat in s, 0 when there is none.
IndexOf(s, pat) ==
    LET hits == { i \in 1..(Len(s) - Len(pat) + 1) :
                      SubSeq(s, i, i + Len(pat) - 1) = pat }
    IN IF hits = {} THEN 0
       ELSE CHOOSE i \in hits : \A j \in hits : i <= j

\* Mutant: every occurrence is replaced (replaceAll).
RECURSIVE ReplaceAll(_, _, _)
ReplaceAll(s, pat, new) ==
    LET i == IndexOf(s, pat)
    IN IF i = 0 THEN s
       ELSE SubSeq(s, 1, i - 1) \o new
              \o ReplaceAll(SubSeq(s, i + Len(pat), Len(s)), pat, new)

\* String.prototype.replace with a string pattern: the first occurrence only.
Replace(s, pat, new) ==
    LET i == IndexOf(s, pat)
    IN IF i = 0 THEN s
       ELSE SubSeq(s, 1, i - 1) \o new \o SubSeq(s, i + Len(pat), Len(s))

\* replace(/\.$/, ""): drop one trailing dot.
StripDot(s) ==
    IF Len(s) > 0 /\ s[Len(s)] = "." THEN SubSeq(s, 1, Len(s) - 1) ELSE s

----------------------------------------------------------------------------
(* Inputs *)

Ports == { 3000, 8080 }
Pids == { 4242 }
CallbackIds == { "cbA", "cbB" }
TimerIds == 1..MaxTimers
\* Callers of the extension that do not wait for one another.
Callers == { "c1", "c2" }
\* The host of the plugin, which calls init and shutdown.
Host == "host"

HostA == << "a", ".", "n" >>
HostB == << "b", ".", "n" >>
Hosts == { HostA, HostB }

\* Paths a caller passes to expose: none, and a path that holds a hostname.
PathArgs == { Null, Slash \o HostA }

\* What `tailscale status --json` gives through exec: nothing (the command failed
\* or printed nothing), text that does not parse or has no usable shape, or a
\* status object; DNSName is the empty string when the field is absent.
StatusFail == [ kind |-> "fail", BackendState |-> "", DNSName |-> Null ]
StatusGarbage == [ kind |-> "garbage", BackendState |-> "", DNSName |-> Null ]
StatusJson(state, dns) == [ kind |-> "json", BackendState |-> state, DNSName |-> dns ]
DNSNames == { Null, << "." >>, HostA } \cup { h \o << "." >> : h \in Hosts }
StatusOutputs ==
    { StatusFail, StatusGarbage, StatusJson("Stopped", HostA \o << "." >>) }
      \cup { StatusJson("Running", d) : d \in DNSNames }

\* parsed.Self?.DNSName?.replace(/\.$/, "") || null
ExtractHostname(parsed) == StripDot(parsed.DNSName)

----------------------------------------------------------------------------
(* The module's state as one record, threaded through the functions below.   *)
(* cmds, notes and cbs collect what the running call issues: external        *)
(* commands, event-bus emissions and callback invocations.  exc is TRUE      *)
(* while an exception is on its way out of the running call.                 *)

Cur ==
    [ ctx |-> ctx, hostname |-> hostname, available |-> available,
      activeFunnel |-> activeFunnel, pollTimer |-> pollTimer,
      hostnameChangeCallbacks |-> hostnameChangeCallbacks,
      registered |-> registered, liveTimers |-> liveTimers,
      errPending |-> errPending,
      cmds |-> << >>, notes |-> << >>, cbs |-> << >>, exc |-> FALSE ]

HasFunnel(s) == s.activeFunnel # Null
Rec(s) == Get(s.activeFunnel)
\* activeFunnel?.active
FunnelActive(s) == HasFunnel(s) /\ Rec(s).active
\* The port held by the slot when a command is issued, 0 when the slot is empty.
SlotPort(s) == IF HasFunnel(s) THEN Rec(s).port ELSE 0

\* An external command (execSync, spawnSync, spawn, process.kill) is issued and ends
\* with outcome `out`; slot is what the record slot holds at that moment.
Cmd(s, cmd, arg, out) ==
    [ s EXCEPT !.cmds = Append(@, [ cmd |-> cmd, arg |-> arg, out |-> out,
                                    slot |-> SlotPort(s) ]) ]

Result(s, ret) == [ st |-> s, ret |-> ret ]

\* An exception is thrown; a catch block takes it.
Throw(s) == [ s EXCEPT !.exc = TRUE ]
Catch(s) == [ s EXCEPT !.exc = FALSE ]

\* A command whose outcome `out` is an exception when it is in `throwing`.
CmdThrows(s, cmd, arg, out, throwing) ==
    IF out \in throwing THEN Throw(Cmd(s, cmd, arg, out)) ELSE Cmd(s, cmd, arg, out)

\* Mutant: execSync is called outside a try block.
execUncaught(s, cmd, out) == CmdThrows(s, cmd, 0, out, { "missing", "fail" })

\* exec (lines 39-45): execSync throws when the command fails or times out; the
\* catch gives null.
exec(s, cmd, out) == Catch(CmdThrows(s, cmd, 0, out, { "missing", "fail" }))

----------------------------------------------------------------------------
(* Availability prober *)

\* Outcomes of the two commands of a probe; none is run when the verdict is cached.
NoProbe == [ which |-> FALSE, status |-> StatusFail ]
AllProbeEnvs == { NoProbe } \cup { [ which |-> TRUE, status |-> o ] : o \in StatusOutputs }
ProbeEnvs(s) == IF s.available # Null THEN { NoProbe } ELSE AllProbeEnvs

\* Mutant: the cached verdict is not consulted, every call probes again.
checkTailscaleAvailableNoCache(s, env) ==
    LET s1 == Cmd(s, "which", 0, IF env.which THEN "found" ELSE "missing")
        no(t) == Result([ t EXCEPT !.available = Some(FALSE) ], FALSE)
    IN IF ~env.which THEN no(s1)
       ELSE
         LET s2 == Cmd(s1, "status", 0, env.status.kind)
             parsed == env.status
         IN IF parsed.kind # "json" \/ parsed.BackendState # "Running" THEN no(s2)
            ELSE Result([ s2 EXCEPT !.hostname = ExtractHostname(parsed),
                                    !.available = Some(TRUE) ], TRUE)

\* JSON.parse, and the reads of what it gives, throw on text of no usable shape.
parse(s, status) == IF status.kind = "garbage" THEN Throw(s) ELSE s

checkTailscaleAvailable(s, env) ==
    IF s.available # Null THEN Result(s, Get(s.available))
    ELSE
      LET s1 == exec(s, "which", IF env.which THEN "found" ELSE "missing")
          no(t) == Result([ t EXCEPT !.available = Some(FALSE) ], FALSE)
      IN IF ~env.which THEN no(s1)
         ELSE
           LET s2 == exec(s1, "status", env.status.kind)
               parsed == env.status
               s3 == parse(s2, parsed)
           IN IF parsed.kind = "fail" THEN no(s2)
              ELSE IF s3.exc THEN no(Catch(s3))
              ELSE IF parsed.BackendState # "Running" THEN no(s3)
              ELSE Result([ s3 EXCEPT !.hostname = ExtractHostname(parsed),
                                      !.available = Some(TRUE) ], TRUE)

getTailscaleHostname(s, env) ==
    IF s.hostname # Null THEN Result(s, s.hostname)
    ELSE LET r == checkTailscaleAvailable(s, env)
         IN Result(r.st, r.st.hostname)

----------------------------------------------------------------------------
(* Funnel controller *)

OffOutcomes == { "ok", "nonzero", "timeout" }
KillOutcomes == { "delivered", "gone" }
NoStop == [ off |-> "-", kill |-> "-" ]
\* Outcomes of the commands of a stop of `port`; none is run when nothing matches.
StopEnvs(s, port) ==
    IF ~HasFunnel(s) \/ Rec(s).port # port THEN { NoStop }
    ELSE IF Rec(s).pid = Null THEN { [ off |-> o, kill |-> "-" ] : o \in OffOutcomes }
    ELSE { [ off |-> o, kill |-> k ] : o \in OffOutcomes, k \in KillOutcomes }

\* Mutant: the turn-off command is not issued, the process is only signalled.
stopFunnelKillOnly(s, port, env) ==
    IF ~HasFunnel(s) \/ Rec(s).port # port THEN Result(s, FALSE)
    ELSE
      LET s2 == IF Rec(s).pid # Null
                THEN Cmd(s, "kill", Get(Rec(s).pid), env.kill) ELSE s
      IN Result([ s2 EXCEPT !.activeFunnel = Null ], TRUE)

\* Mutant: the signal is sent outside the try block, so a process that is gone
\* makes the call fail before the record is cleared.
stopFunnelUncaughtKill(s, port, env) ==
    IF ~HasFunnel(s) \/ Rec(s).port # port THEN Result(s, FALSE)
    ELSE
      LET s1 == Cmd(s, "off", port, env.off)
          s2 == IF Rec(s1).pid # Null
                THEN Cmd(s1, "kill", Get(Rec(s1).pid), env.kill) ELSE s1
      IN IF env.kill = "gone" THEN Result(s2, FALSE)
         ELSE Result([ s2 EXCEPT !.activeFunnel = Null ], TRUE)

\* Mutant: the port is not compared, whatever funnel is active is stopped.
stopFunnelAnyPort(s, port, env) ==
    IF ~HasFunnel(s) THEN Result(s, FALSE)
    ELSE
      LET s1 == Cmd(s, "off", Rec(s).port, env.off)
          s2 == IF Rec(s1).pid # Null
                THEN Cmd(s1, "kill", Get(Rec(s1).pid), env.kill) ELSE s1
      IN Result([ s2 EXCEPT !.activeFunnel = Null ], TRUE)

stopFunnel(s, port, env) ==
    IF ~HasFunnel(s) \/ Rec(s).port # port THEN Result(s, FALSE)
    ELSE
      \* spawnSync reports a failure or a timeout in its result; it does not throw
      LET s1 == Cmd(s, "off", port, env.off)
          \* process.kill throws when the process is gone; the catch swallows it
          s2 == IF Rec(s1).pid # Null
                THEN Catch(CmdThrows(s1, "kill", Get(Rec(s1).pid), env.kill, { "gone" }))
                ELSE s1
      IN Result([ s2 EXCEPT !.activeFunnel = Null ], TRUE)

\* How spawn ends: it throws, it returns a process that fails to start (no pid,
\* an 'error' event follows), or it returns a running process with a pid.
SpawnOutcomes ==
    { [ kind |-> "throw", pid |-> Null ], [ kind |-> "error", pid |-> Null ] }
      \cup { [ kind |-> "ok", pid |-> Some(p) ] : p \in Pids }
NoSpawn == [ kind |-> "-", pid |-> Null ]

\* startFunnel after its probe: the hostname check and the same-port check.
\* TRUE when the call ends there, with startFunnelEarly as its result.
\* Mutant: the hostname check is missing.
startFunnelEndsNoHostname(s, port) == FunnelActive(s) /\ Rec(s).port = port

\* Mutant: the same-port check is missing.
startFunnelEndsNoSamePort(s, port) == s.hostname = Null

startFunnelEnds(s, port) ==
    \/ s.hostname = Null
    \/ (FunnelActive(s) /\ Rec(s).port = port)

startFunnelEarly(s, port) ==
    IF s.hostname = Null THEN Result(s, Null)
    ELSE Result(s, Rec(s).publicUrl)

\* Mutant: the funnel on the other port is left running.
startFunnelRetireSkipped(s, env) == s

\* The stop of a funnel on another port (awaited).
startFunnelRetire(s, env) ==
    IF FunnelActive(s) THEN stopFunnel(s, Rec(s).port, env).st ELSE s

\* Mutant: the path is appended also when it is "/".
PublicUrlKeepsSlash(host, path) == Https \o host \o path

PublicUrl(host, path) == Https \o host \o (IF path = Slash THEN << >> ELSE path)

\* Mutant: the record is stored before the spawn, and stays when the spawn throws.
startFunnelSpawnRecordsFirst(s, port, path, spawn) ==
    LET publicUrl == PublicUrl(s.hostname, path)
        s0 == [ s EXCEPT !.activeFunnel = Some([ port |-> port, path |-> path,
                                                 publicUrl |-> publicUrl, active |-> TRUE,
                                                 pid |-> spawn.pid ]) ]
        s1 == CmdThrows(s0, "spawn", port, spawn.kind, { "throw" })
    IN IF s1.exc THEN Result(Catch(s1), Null)
       ELSE Result([ s1 EXCEPT
                       !.errPending = IF spawn.kind = "error" THEN @ \cup { port } ELSE @ ],
                   publicUrl)

\* The URL, the spawn and the record.
\* Mutant: the record is made with its active field false.
startFunnelSpawnInactive(s, port, path, spawn) ==
    LET publicUrl == PublicUrl(s.hostname, path)
        s1 == CmdThrows(s, "spawn", port, spawn.kind, { "throw" })
    IN IF s1.exc THEN Result(Catch(s1), Null)
       ELSE Result([ s1 EXCEPT
                       !.errPending = IF spawn.kind = "error" THEN @ \cup { port } ELSE @,
                       !.activeFunnel = Some([ port |-> port, path |-> path,
                                               publicUrl |-> publicUrl, active |-> FALSE,
                                               pid |-> spawn.pid ]) ],
                   publicUrl)

startFunnelSpawn(s, port, path, spawn) ==
    LET publicUrl == PublicUrl(s.hostname, path)
        s1 == CmdThrows(s, "spawn", port, spawn.kind, { "throw" })
    IN IF s1.exc THEN Result(Catch(s1), Null)
       ELSE Result([ s1 EXCEPT
                       !.errPending = IF spawn.kind = "error" THEN @ \cup { port } ELSE @,
                       !.activeFunnel = Some([ port |-> port, path |-> path,
                                               publicUrl |-> publicUrl, active |-> TRUE,
                                               pid |-> spawn.pid ]) ],
                   publicUrl)

\* The environment of one startFunnel call, drawn only where the call uses it.
StartEnvs(s, port) ==
    UNION { LET p == checkTailscaleAvailable(s, pe)
            IN IF ~p.ret \/ startFunnelEnds(p.st, port)
               THEN { [ probe |-> pe, stop |-> NoStop, spawn |-> NoSpawn ] }
               ELSE { [ probe |-> pe, stop |-> se, spawn |-> sp ] :
                        se \in IF FunnelActive(p.st)
                               THEN StopEnvs(p.st, Rec(p.st).port) ELSE { NoStop },
                        sp \in SpawnOutcomes }
          : pe \in ProbeEnvs(s) }

\* Mutant: the new record is kept next to the one it should replace.
startFunnelKeepsBoth(s, port, path, env) ==
    LET p == checkTailscaleAvailable(s, env.probe)
    IN IF ~p.ret THEN Result(p.st, Null)
       ELSE IF startFunnelEnds(p.st, port) THEN startFunnelEarly(p.st, port)
       ELSE LET r == startFunnelSpawn([ p.st EXCEPT !.activeFunnel = Null ],
                                      port, path, env.spawn)
            IN Result([ r.st EXCEPT !.activeFunnel = p.st.activeFunnel \o @ ], r.ret)

startFunnel(s, port, path, env) ==
    LET p == checkTailscaleAvailable(s, env.probe)
    IN IF ~p.ret THEN Result(p.st, Null)
       ELSE IF startFunnelEnds(p.st, port) THEN startFunnelEarly(p.st, port)
       ELSE startFunnelSpawn(startFunnelRetire(p.st, env.stop), port, path, env.spawn)

----------------------------------------------------------------------------
(* Hostname change monitor *)

NoPoll == [ emit |-> "-", throwing |-> {} ]
EmitOutcomes == { "ok", "reject" }

\* Mutant: the backend state is not looked at.
PolledHostnameAnyState(status) ==
    IF status.kind # "json" THEN Null ELSE ExtractHostname(status)

\* The hostname a tick reads, Null when the tick ends without one.
PolledHostname(status) ==
    IF status.kind # "json" \/ status.BackendState # "Running" THEN Null
    ELSE ExtractHostname(status)

\* TRUE when the tick goes on to the change branch (lines 122-151).
IsChange(s, status) ==
    /\ PolledHostname(status) # Null
    /\ PolledHostname(status) # s.hostname
    /\ s.hostname # Null

HasSink(s) == s.ctx # Null /\ Get(s.ctx).events

\* Every way an emission and the callbacks of the registry can end.
AllPollEnvs(s) ==
    { [ emit |-> e, throwing |-> t ] :
        e \in EmitOutcomes \cup { "-" },
        t \in SUBSET (1..Len(s.hostnameChangeCallbacks)) }

\* The environment of one tick: how the emission ends and which callbacks raise.
PollEnvs(s, status) ==
    IF ~IsChange(s, status) THEN { NoPoll }
    ELSE { [ emit |-> e, throwing |-> t ] :
             e \in IF HasSink(s) THEN EmitOutcomes ELSE { "-" },
             t \in SUBSET (1..Len(s.hostnameChangeCallbacks)) }

\* Mutant: the notification goes out, the cached hostname is left as it was.
pollHostnameChangeKeepsCache(s, newHostname) ==
    LET payload == [ oldHostname |-> s.hostname,
                     newHostname |-> newHostname,
                     activePort |-> IF FunnelActive(s) THEN Some(Rec(s).port) ELSE Null,
                     publicUrl |-> IF FunnelActive(s) THEN Rec(s).publicUrl ELSE Null ]
    IN IF s.ctx # Null /\ Get(s.ctx).events
       THEN [ s EXCEPT !.notes = Append(@, payload) ] ELSE s

\* Mutant: the rewrite of the URL resets the path of the record as well.
pollHostnameChangeResetsPath(s, newHostname) ==
    LET s1 == [ s EXCEPT !.hostname = newHostname ]
    IN IF FunnelActive(s1)
       THEN [ s1 EXCEPT !.activeFunnel =
                Some([ Rec(s1) EXCEPT !.publicUrl = Https \o newHostname,
                                      !.path = Slash ]) ]
       ELSE s1

\* Lines 122-142: the cache, the URL of the active funnel, the emission.
\* Mutant: the hostname is cached, the publicUrl of the record is left as it was.
pollHostnameChangeKeepsUrl(s, newHostname) ==
    LET oldHostname == s.hostname
        s2 == [ s EXCEPT !.hostname = newHostname ]
        payload == [ oldHostname |-> oldHostname,
                     newHostname |-> newHostname,
                     activePort |-> IF FunnelActive(s2) THEN Some(Rec(s2).port) ELSE Null,
                     publicUrl |-> IF FunnelActive(s2) THEN Rec(s2).publicUrl ELSE Null ]
    IN IF HasSink(s2) THEN [ s2 EXCEPT !.notes = Append(@, payload) ] ELSE s2

pollHostnameChange(s, newHostname) ==
    LET oldHostname == s.hostname
        s1 == [ s EXCEPT !.hostname = newHostname ]
        s2 == IF FunnelActive(s1)
              THEN [ s1 EXCEPT !.activeFunnel =
                       Some([ Rec(s1) EXCEPT !.publicUrl =
                                Replace(@, oldHostname, newHostname) ]) ]
              ELSE s1
        payload == [ oldHostname |-> oldHostname,
                     newHostname |-> newHostname,
                     activePort |-> IF FunnelActive(s2) THEN Some(Rec(s2).port) ELSE Null,
                     publicUrl |-> IF FunnelActive(s2) THEN Rec(s2).publicUrl ELSE Null ]
    IN IF HasSink(s2) THEN [ s2 EXCEPT !.notes = Append(@, payload) ] ELSE s2

\* Lines 144-151: the callbacks, read from the registry as the loop runs.
RECURSIVE notifyCallbacks(_, _, _, _, _)
notifyCallbacks(s, i, oldHostname, newHostname, throwing) ==
    IF i > Len(s.hostnameChangeCallbacks) THEN s
    ELSE LET called == [ s EXCEPT !.cbs =
                           Append(@, [ cb |-> s.hostnameChangeCallbacks[i],
                                       oldHostname |-> oldHostname,
                                       newHostname |-> newHostname,
                                       threw |-> i \in throwing ]) ]
         IN notifyCallbacks(Catch(IF i \in throwing THEN Throw(called) ELSE called),
                            i + 1, oldHostname, newHostname, throwing)

\* Mutant: the first-poll branch is missing, a first hostname counts as a change.
pollHostnameNoFirstPoll(s, status, env) ==
    LET s0 == exec(s, "pollStatus", status.kind)
        newHostname == PolledHostname(status)
    IN IF newHostname = Null \/ newHostname = s0.hostname THEN s0
       ELSE LET s1 == pollHostnameChange(s0, newHostname)
                s2 == IF env.emit = "reject" THEN Throw(s1) ELSE s1
            IN Catch(IF s2.exc THEN s2
                     ELSE notifyCallbacks(s2, 1, s0.hostname, newHostname, env.throwing))

pollHostname(s, status, env) ==
    LET s0 == exec(s, "pollStatus", status.kind)
        newHostname == PolledHostname(status)
    IN IF status.kind = "fail" THEN s0
       ELSE IF parse(s0, status).exc THEN Catch(parse(s0, status))
       ELSE IF newHostname = Null \/ newHostname = s0.hostname THEN s0
       ELSE IF s0.hostname = Null THEN [ s0 EXCEPT !.hostname = newHostname ]
       ELSE LET s1 == pollHostnameChange(s0, newHostname)
                \* await ctx?.events?.emitCustom(...): a rejection throws here
                s2 == IF env.emit = "reject" THEN Throw(s1) ELSE s1
            IN \* the catch of line 152 ends the tick
               Catch(IF s2.exc THEN s2
                     ELSE notifyCallbacks(s2, 1, s0.hostname, newHostname, env.throwing))

----------------------------------------------------------------------------
(* Extension queries *)

\* Mutant: the port asked for is not compared with the record's.
getUrlAnyPort(s, port) == IF HasFunnel(s) THEN Rec(s).publicUrl ELSE Null

getUrl(s, port) ==
    IF HasFunnel(s) /\ Rec(s).port = port THEN Rec(s).publicUrl ELSE Null

getStatus(s) ==
    [ available |-> IF s.available = Null THEN FALSE ELSE Get(s.available),
      hostname |-> s.hostname,
      funnels |-> IF HasFunnel(s) THEN << Rec(s) >> ELSE << >> ]

getPort(s) == IF FunnelActive(s) THEN Some(Rec(s).port) ELSE Null

----------------------------------------------------------------------------
(* Plugin init and shutdown *)

DefaultPollSeconds == 60

\* expose of the configuration: absent, one object, or the array form.
ItemA == [ port |-> 3000, path |-> Null ]
ItemB == [ port |-> 8080, path |-> Slash \o HostA ]
ExposeCfgs ==
    { [ form |-> "none", items |-> << >> ],
      [ form |-> "object", items |-> << ItemA >> ],
      [ form |-> "array", items |-> << >> ],
      [ form |-> "array", items |-> << ItemB, ItemA >> ] }

\* pollIntervalSeconds: Null when the configuration does not give it.
PollCfgs == { Null, Some(0) }

\* enabled: false alone, and with an expose entry; enabled true or absent with
\* every expose and poll entry.
Configs ==
    { [ enabled |-> FALSE, expose |-> [ form |-> "none", items |-> << >> ], poll |-> Null ],
      [ enabled |-> FALSE, expose |-> [ form |-> "object", items |-> << ItemA >> ],
        poll |-> Null ] }
      \cup { [ enabled |-> TRUE, expose |-> e, poll |-> q ] : e \in ExposeCfgs, q \in PollCfgs }

PluginCtxs == { [ events |-> b ] : b \in BOOLEAN }

\* Mutant: the last element of the array form is taken.
ExposeConfigLast(config) ==
    IF config.expose.items = << >> THEN Null
    ELSE Some(config.expose.items[Len(config.expose.items)])

\* Array.isArray(config.expose) ? config.expose[0] : config.expose
ExposeConfig(config) ==
    IF config.expose.items = << >> THEN Null ELSE Some(config.expose.items[1])

\* config?.pollIntervalSeconds ?? 60
PollSeconds(config) == IF config.poll = Null THEN DefaultPollSeconds ELSE Get(config.poll)

\* setInterval: a timer the runtime does not hold yet.
NewTimer(s) == CHOOSE i \in TimerIds \ s.liveTimers : \A j \in TimerIds \ s.liveTimers : i <= j

\* Lines 426-438: the configured port is exposed.
initExposes(s, config) == ExposeConfig(config) # Null

initExpose(s, config, env) ==
    IF ~initExposes(s, config) THEN s
    ELSE LET item == Get(ExposeConfig(config))
         IN startFunnel(s, item.port, IF item.path = Null THEN Slash ELSE item.path, env).st

\* Mutant: the timer is set whatever the interval.
initPollAlways(s, config) ==
    [ s EXCEPT !.pollTimer = Some(NewTimer(s)), !.liveTimers = @ \cup { NewTimer(s) } ]

\* Lines 440-449: the hostname polling is started.
initPoll(s, config) ==
    IF PollSeconds(config) > 0
    THEN [ s EXCEPT !.pollTimer = Some(NewTimer(s)), !.liveTimers = @ \cup { NewTimer(s) } ]
    ELSE s

NoStart == [ probe |-> NoProbe, stop |-> NoStop, spawn |-> NoSpawn ]
InitEnvs(s, config) ==
    IF ~config.enabled THEN { [ probe |-> NoProbe, start |-> NoStart ] }
    ELSE UNION { LET p == checkTailscaleAvailable(s, pe)
                 IN IF ~p.ret \/ ~initExposes(p.st, config)
                    THEN { [ probe |-> pe, start |-> NoStart ] }
                    ELSE { [ probe |-> pe, start |-> se ] :
                             se \in StartEnvs(p.st, Get(ExposeConfig(config)).port) }
               : pe \in ProbeEnvs(s) }

\* Mutant: enabled is not looked at.
initIgnoresEnabled(s, pluginCtx, config, env) ==
    LET s1 == [ s EXCEPT !.ctx = Some(pluginCtx) ]
        p == checkTailscaleAvailable(s1, env.probe)
    IN IF ~p.ret THEN p.st
       ELSE initPoll(initExpose([ p.st EXCEPT !.registered = TRUE ], config, env.start),
                     config)

init(s, pluginCtx, config, env) ==
    LET s1 == [ s EXCEPT !.ctx = Some(pluginCtx) ]
    IN IF ~config.enabled THEN s1
       ELSE LET p == checkTailscaleAvailable(s1, env.probe)
            IN IF ~p.ret THEN p.st
               ELSE initPoll(initExpose([ p.st EXCEPT !.registered = TRUE ],
                                        config, env.start),
                             config)

\* Mutant: the registry is not emptied.
shutdownKeepsCallbacks(s, env) ==
    LET s1 == IF s.pollTimer # Null
              THEN [ s EXCEPT !.liveTimers = @ \ { Get(s.pollTimer) }, !.pollTimer = Null ]
              ELSE s
        s3 == IF HasFunnel(s1) THEN stopFunnel(s1, Rec(s1).port, env).st ELSE s1
    IN [ s3 EXCEPT !.registered = IF s3.ctx # Null THEN FALSE ELSE @,
                   !.ctx = Null, !.hostname = Null, !.available = Null ]

shutdown(s, env) ==
    LET s1 == IF s.pollTimer # Null
              THEN [ s EXCEPT !.liveTimers = @ \ { Get(s.pollTimer) }, !.pollTimer = Null ]
              ELSE s
        s2 == [ s1 EXCEPT !.hostnameChangeCallbacks = << >> ]
        s3 == IF HasFunnel(s2) THEN stopFunnel(s2, Rec(s2).port, env).st ELSE s2
    IN [ s3 EXCEPT !.registered = IF s3.ctx # Null THEN FALSE ELSE @,
                   !.ctx = Null, !.hostname = Null, !.available = Null ]

\* shutdown up to the await of line 465: the timer is cleared, the registry is
\* emptied and the funnel of the slot is stopped.
shutdownStop(s, env) ==
    LET s1 == IF s.pollTimer # Null
              THEN [ s EXCEPT !.liveTimers = @ \ { Get(s.pollTimer) }, !.pollTimer = Null ]
              ELSE s
        s2 == [ s1 EXCEPT !.hostnameChangeCallbacks = << >> ]
    IN IF HasFunnel(s2) THEN stopFunnel(s2, Rec(s2).port, env).st ELSE s2

\* shutdown from line 468 on: the extension is unregistered and the context,
\* the hostname and the verdict are forgotten.
shutdownReset(s) ==
    [ s EXCEPT !.registered = IF s.ctx # Null THEN FALSE ELSE @,
               !.ctx = Null, !.hostname = Null, !.available = Null ]

\* The 'error' listener of a spawned process (lines 199-204).
onProcessError(s, port) ==
    LET s1 == [ s EXCEPT !.errPending = @ \ { port } ]
    IN IF HasFunnel(s1) /\ Rec(s1).port = port
       THEN [ s1 EXCEPT !.activeFunnel = Null ]
       ELSE s1

onHostnameChange(s, callback) ==
    [ s EXCEPT !.hostnameChangeCallbacks = Append(@, callback) ]

----------------------------------------------------------------------------
(* stats.ts: the counters.  Time is counted from the load of the module.  An  *)
(* object a caller holds is a value and a mark telling whether it is the      *)
(* module's own object (an alias) or a copy of it.                            *)

MaxCount == 2
StatKeys == { "funnelsStarted", "funnelsStopped", "hostnameChanges", "statusChecks" }
\* Date.now() at a reset: the instant of the load, or a later one.
Times == { 0, 1 }
\* The amount of an incrementStat call, Null when the argument is left out.
Amounts == { Null, Some(2) }
\* What the test writes into a snapshot.
Scribble == 999

\* Lines 11-17 and 31-37: every counter 0, startedAt the current time.
ZeroStats(now) ==
    [ funnelsStarted |-> 0, funnelsStopped |-> 0, hostnameChanges |-> 0,
      statusChecks |-> 0, startedAt |-> now ]

\* Mutant: the module's own object is handed out.
getStatsOwnObject(st) == [ alias |-> TRUE, val |-> st ]

\* getStats: { ...stats }
getStats(st) == [ alias |-> FALSE, val |-> [ k \in DOMAIN st |-> st[k] ] ]

\* amount = 1 when the argument is left out
AmountOf(amount) == IF amount = Null THEN 1 ELSE Get(amount)

\* incrementStat: stats[key] += amount
incrementStat(st, key, amount) == [ st EXCEPT ![key] = @ + AmountOf(amount) ]

\* resetStats: a new object
resetStats(now) == ZeroStats(now)

----------------------------------------------------------------------------
(* webmcp-tools.ts: the response builders.  They are pure functions; a raised *)
(* exception is the field raised of what they give.                           *)

StateRunning == << "R", "u", "n", "n", "i", "n", "g" >>
StateStopped == << "S", "t", "o", "p", "p", "e", "d" >>
Ip4 == << "1", "0", "0", ".", "1" >>
Ip6 == << "f", "d", ":", ":", "1" >>
TailnetName == << "e", "x", ".", "c", "o", "m" >>
AuthUrlValue == << "l", "o", "g", "i", "n", ".", "t", "s" >>
AuthKeyValue == << "t", "s", "k", "e", "y" >>

\* Self.DNSName of a status object: absent, a string, or a value of another type.
NoDNSName == [ type |-> "absent", value |-> Null ]
NodeDNSNames ==
    { NoDNSName, [ type |-> "number", value |-> Null ],
      [ type |-> "string", value |-> << >> ],
      [ type |-> "string", value |-> HostB \o << "." >> ] }
NoSelf == [ DNSName |-> NoDNSName, TailscaleIPs |-> << >>, AuthKey |-> Null ]
NodeSelves ==
    { [ DNSName |-> d, TailscaleIPs |-> i, AuthKey |-> k ] :
        d \in NodeDNSNames, i \in { << >>, << Ip4 >>, << Ip4, Ip6 >> },
        k \in { Null, AuthKeyValue } }

\* The raw status text a caller passes: null, the empty string, text that does
\* not parse, the JSON text `null`, or the text of a status object.
NodeStatusObject(state, self, tailnet, authUrl) ==
    [ kind |-> "json", BackendState |-> state, Self |-> self,
      CurrentTailnet |-> tailnet, AuthURL |-> authUrl ]
NodeStatusTexts ==
    { [ kind |-> k ] : k \in { "null", "empty", "garbage", "nullLiteral" } }
      \cup { NodeStatusObject(state, self, tailnet, authUrl) :
                state \in { Null, StateRunning, StateStopped },
                self \in { Null } \cup { Some(f) : f \in NodeSelves },
                tailnet \in { Null, Some([ Name |-> TailnetName ]) },
                authUrl \in { Null, AuthUrlValue } }
NodeStatusArgs ==
    { [ json |-> j, available |-> a, hostname |-> h ] :
        j \in NodeStatusTexts, a \in BOOLEAN, h \in { Null, HostA } }

\* JSON.parse: throws on text that is not JSON, the empty string included; the
\* text `null` (and null itself, which is turned into that text) parses to null.
JSONParse(json) ==
    IF json.kind \in { "garbage", "empty" } THEN [ ok |-> FALSE, value |-> Null ]
    ELSE IF json.kind \in { "nullLiteral", "null" } THEN [ ok |-> TRUE, value |-> Null ]
    ELSE [ ok |-> TRUE, value |-> Some(json) ]

Returns(value) == [ raised |-> FALSE, value |-> value ]
Raises == [ raised |-> TRUE, value |-> Null ]

\* Lines 64-82: the body of the try.  A property read on null, and replace on a
\* DNSName that is not a string, raise; the DNSName is read only when no
\* hostname is cached.
nodeStatusTry(json, cachedHostname) ==
    LET parsed == JSONParse(json)
    IN IF ~parsed.ok \/ parsed.value = Null THEN Raises
       ELSE LET obj == Get(parsed.value)
                self == IF obj.Self = Null THEN NoSelf ELSE Get(obj.Self)
            IN IF cachedHostname = Null /\ self.DNSName.type = "number" THEN Raises
               ELSE Returns(
                      [ online |-> obj.BackendState = StateRunning,
                        available |-> TRUE,
                        hostname |-> IF cachedHostname # Null THEN cachedHostname
                                     ELSE StripDot(self.DNSName.value),
                        ip |-> IF self.TailscaleIPs = << >> THEN Null
                               ELSE self.TailscaleIPs[1],
                        tailnetName |-> IF obj.CurrentTailnet = Null THEN Null
                                        ELSE Get(obj.CurrentTailnet).Name,
                        backendState |-> obj.BackendState ])

\* Mutant: the login URL of the status object is passed on as well.
buildNodeStatusResponseWithAuth(json, cachedAvailable, cachedHostname) ==
    IF json.kind \in { "null", "empty" } \/ ~cachedAvailable
    THEN Returns([ online |-> FALSE, available |-> FALSE, hostname |-> Null,
                   ip |-> Null, tailnetName |-> Null ])
    ELSE LET tried == nodeStatusTry(json, cachedHostname)
         IN IF tried.raised
            THEN Returns([ online |-> FALSE, available |-> cachedAvailable,
                           hostname |-> cachedHostname, ip |-> Null,
                           tailnetName |-> Null ])
            ELSE Returns(tried.value @@ [ authUrl |-> json.AuthURL ])

\* Mutant: the try has no catch.
buildNodeStatusResponseNoCatch(json, cachedAvailable, cachedHostname) ==
    IF json.kind \in { "null", "empty" } \/ ~cachedAvailable
    THEN Returns([ online |-> FALSE, available |-> FALSE, hostname |-> Null,
                   ip |-> Null, tailnetName |-> Null ])
    ELSE nodeStatusTry(json, cachedHostname)

\* Lines 54-91.
buildNodeStatusResponse(json, cachedAvailable, cachedHostname) ==
    IF json.kind \in { "null", "empty" } \/ ~cachedAvailable
    THEN Returns([ online |-> FALSE, available |-> FALSE, hostname |-> Null,
                   ip |-> Null, tailnetName |-> Null ])
    ELSE LET tried == nodeStatusTry(json, cachedHostname)
         IN IF tried.raised
            THEN Returns([ online |-> FALSE, available |-> cachedAvailable,
                           hostname |-> cachedHostname, ip |-> Null,
                           tailnetName |-> Null ])
            ELSE tried

\* `${n}`: the decimal digits of an integer.
Digit(d) == << "0", "1", "2", "3", "4", "5", "6", "7", "8", "9" >>[d + 1]
RECURSIVE Decimal(_)
Decimal(n) ==
    IF n < 0 THEN << "-" >> \o Decimal(-n)
    ELSE IF n < 10 THEN << Digit(n) >>
    ELSE Decimal(n \div 10) \o << Digit(n % 10) >>

\* The uptimes the formatter is given, in milliseconds: every mix of days,
\* hours, minutes, seconds at and next to the limits, and three negative ones.
UptimeInputs ==
    { ((((d * 24 + h) * 60 + m) * 60) + sec) * 1000 + r :
        d \in { 0, 1, 2 }, h \in { 0, 1, 23 }, m \in { 0, 1, 59 },
        sec \in { 0, 1, 59 }, r \in { 0, 999 } }
      \cup { -1, -1000, -3600000 }

\* Mutant: the hours and minutes are not reduced.
formatUptimeNoMod(ms) ==
    LET seconds == ms \div 1000
        minutes == seconds \div 60
        hours == minutes \div 60
        days == hours \div 24
    IN IF days > 0 THEN Decimal(days) \o << "d", " " >> \o Decimal(hours) \o << "h" >>
       ELSE IF hours > 0
       THEN Decimal(hours) \o << "h", " " >> \o Decimal(minutes) \o << "m" >>
       ELSE IF minutes > 0
       THEN Decimal(minutes) \o << "m", " " >> \o Decimal(seconds) \o << "s" >>
       ELSE Decimal(seconds) \o << "s" >>

\* Lines 93-102; Math.floor of a quotient is \div.
formatUptime(ms) ==
    LET seconds == ms \div 1000
        minutes == seconds \div 60
        hours == minutes \div 60
        days == hours \div 24
    IN IF days > 0
       THEN Decimal(days) \o << "d", " " >> \o Decimal(hours % 24) \o << "h" >>
       ELSE IF hours > 0
       THEN Decimal(hours) \o << "h", " " >> \o Decimal(minutes % 60) \o << "m" >>
       ELSE IF minutes > 0
       THEN Decimal(minutes) \o << "m", " " >> \o Decimal(seconds % 60) \o << "s" >>
       ELSE Decimal(seconds) \o << "s" >>

----------------------------------------------------------------------------
(* startFunnel between its awaits.  An async function runs until it awaits,    *)
(* and other calls run before it goes on: expose awaits the probe (line 161)   *)
(* and, when a funnel of another port is active, its stop (line 184).          *)

\* pc: "idle", "probed" (at the await of line 161), "stopped" (at that of 184).
NoCall == [ pc |-> "idle", port |-> 0, ok |-> FALSE ]

\* The processes: an exposure that is up, or a start that failed and whose
\* 'error' event is due; cur marks the one the record of the slot was made for.
Proc(port, state) == [ port |-> port, state |-> state, cur |-> TRUE ]
NoneCurrent(P) == { [ e EXCEPT !.cur = FALSE ] : e \in P }
\* The turn-off command for a port ends the exposures of that port.
TurnedOff(P, port) == { e \in P : ~(e.state = "up" /\ e.port = port) }
\* What a stop of the slot and what a spawn with its record make of them.
AfterStop(P, s, port) ==
    IF HasFunnel(s) /\ Rec(s).port = port THEN NoneCurrent(TurnedOff(P, port)) ELSE P
AfterSpawn(P, port, kind) ==
    IF kind = "throw" THEN P
    ELSE NoneCurrent(P) \cup { Proc(port, IF kind = "ok" THEN "up" ELSE "failing") }

----------------------------------------------------------------------------
(* The state machine: one action per call, each run until it settles *)

CountCmd(cmds, cmd) == Cardinality({ i \in 1..Len(cmds) : cmds[i].cmd = cmd })

\* How the commands of a call ended, "-" for a command the call did not run.  Of
\* a stop: the turn-off command alone ("off", no pid recorded), with the signal
\* ("signalled"), or the turn-off timed out and the process was gone ("failed").
NoOut == [ stop |-> "-", spawn |-> "-", emit |-> "-" ]
Stopped(e) ==
    IF e.off = "-" THEN "-"
    ELSE IF e.kill = "-" THEN "off"
    ELSE IF e.off = "timeout" /\ e.kill = "gone" THEN "failed"
    ELSE "signalled"
StopOut(e) == [ NoOut EXCEPT !.stop = Stopped(e) ]
StartOut(e) == [ NoOut EXCEPT !.stop = Stopped(e.stop), !.spawn = e.spawn.kind ]

\* The calls whose note tells what the slot held, and whether the verdict was
\* known, when they were called.
SlotOps == { "expose", "unexpose", "tick", "shutdown" }
ProbeOps == { "isAvailable", "expose" }

\* The module state as a call, or a stretch of a call between two awaits, leaves
\* it; a shutdown starts the count of the status queries anew.
\* Settle: the module state after a call, and a note of the call: which operation, on
\* which port, whether it gave a result (a URL, true, a change), how its commands
\* ended, and what the slot held, whether the verdict was known, (of a tick)
\* whether a hostname was cached and (of a tick or a shutdown) how many callbacks
\* were registered when it was called.
\* The module state a call leaves, as the next call finds it.
Settled(s) == [ s EXCEPT !.cmds = << >>, !.notes = << >>, !.cbs = << >> ]

Store(s, op) ==
    /\ ctx' = s.ctx
    /\ hostname' = s.hostname
    /\ available' = s.available
    /\ activeFunnel' = s.activeFunnel
    /\ pollTimer' = s.pollTimer
    /\ hostnameChangeCallbacks' = s.hostnameChangeCallbacks
    /\ registered' = s.registered
    /\ liveTimers' = s.liveTimers
    /\ errPending' = s.errPending
    /\ statusQueries' = IF op = "shutdown" THEN 0
                        ELSE statusQueries + CountCmd(s.cmds, "status")

Settle(s, op, port, ok, out) ==
    /\ Store(s, op)
    /\ last' = [ op |-> op, port |-> port, ok |-> ok, out |-> out,
                 was |-> IF op \in SlotOps THEN SlotPort(Cur) ELSE 0,
                 knew |-> op \in ProbeOps /\ available # Null,
                 had |-> op = "tick" /\ hostname # Null,
                 regd |-> IF op \in { "tick", "shutdown" }
                          THEN Len(hostnameChangeCallbacks) ELSE 0 ]
    /\ UNCHANGED << statsVars, view, agent, raceVars >>

\* The modules as loaded, whatever a response builder is given.
Loaded ==
    /\ ctx = Null
    /\ hostname = Null
    /\ available = Null
    /\ activeFunnel = Null
    /\ pollTimer = Null
    /\ hostnameChangeCallbacks = << >>
    /\ registered = FALSE
    /\ liveTimers = {}
    /\ errPending = {}
    /\ statusQueries = 0
    /\ last = [ op |-> "load", port |-> 0, ok |-> FALSE, out |-> NoOut,
                was |-> 0, knew |-> FALSE, had |-> FALSE, regd |-> 0 ]
    /\ stats = ZeroStats(0)
    /\ given = [ k \in StatKeys |-> 0 ]
    /\ snapshot = Null
    /\ calls = [ c \in Callers \cup { Host } |-> NoCall ]
    /\ agent = Null
    /\ procs = {}

\* No response builder has been called.
NoView == [ fn |-> "-", args |-> Null, done |-> FALSE, out |-> Null ]

Init == Loaded /\ view = NoView

\* init; the guard caps the timers the runtime holds (an init without a shutdown
\* in between leaves the earlier timer live).
PluginInit ==
    /\ liveTimers # TimerIds
    /\ \E pluginCtx \in PluginCtxs, config \in Configs :
         \E env \in InitEnvs(Cur, config) :
            LET s == init(Cur, pluginCtx, config, env)
            IN Settle(s, "init", 0, s.registered, StartOut(env.start))

PluginShutdown ==
    \E env \in StopEnvs(Cur, SlotPort(Cur)) :
       Settle(shutdown(Cur, env), "shutdown", 0, HasFunnel(Cur), StopOut(env))

IsAvailable ==
    \E env \in ProbeEnvs(Cur) :
       LET r == checkTailscaleAvailable(Cur, env)
       IN Settle(r.st, "isAvailable", 0, r.ret, NoOut)

GetHostname ==
    \E env \in (IF hostname # Null THEN { NoProbe } ELSE ProbeEnvs(Cur)) :
       LET r == getTailscaleHostname(Cur, env)
       IN Settle(r.st, "getHostname", 0, r.ret # Null, NoOut)

\* expose(port, path): startFunnel(port, path || "/")
Expose ==
    \E port \in Ports, path \in PathArgs :
       \E env \in StartEnvs(Cur, port) :
          LET r == startFunnel(Cur, port, IF path = Null THEN Slash ELSE path, env)
          IN Settle(r.st, "expose", port, r.ret # Null, StartOut(env))

Unexpose ==
    \E port \in Ports :
       \E env \in StopEnvs(Cur, port) :
          LET r == stopFunnel(Cur, port, env)
          IN Settle(r.st, "unexpose", port, r.ret, StopOut(env))

\* The three lookups of the extension.
GetUrl ==
    \E port \in Ports :
       Settle(Cur, "getUrl", port, getUrl(Cur, port) # Null, NoOut)

GetStatus == Settle(Cur, "getStatus", 0, getStatus(Cur).available, NoOut)

GetPort == Settle(Cur, "getPort", 0, getPort(Cur) # Null, NoOut)

\* onHostnameChange(callback).  Callbacks are interchangeable, so the one that
\* registers first is named cbA; the same callback may register again.
OnHostnameChange ==
    /\ Len(hostnameChangeCallbacks) < MaxCallbacks
    /\ \E cb \in CallbackIds :
          /\ hostnameChangeCallbacks = << >> => cb = "cbA"
          /\ Settle(onHostnameChange(Cur, cb), "onHostnameChange", 0, TRUE, NoOut)

\* A tick of a live interval timer.
Tick ==
    /\ liveTimers # {}
    /\ \E status \in StatusOutputs :
          \E env \in PollEnvs(Cur, status) :
             Settle(pollHostname(Cur, status, env), "tick", 0, IsChange(Cur, status),
                    [ NoOut EXCEPT !.emit = env.emit ])

\* The 'error' event of a process that did not start.
ProcessError ==
    \E port \in errPending :
       Settle(onProcessError(Cur, port), "processError", port,
              HasFunnel(Cur) /\ Rec(Cur).port = port, NoOut)

\* The calls of the plugin and of its extension.  Callbacks are code of other
\* plugins and change nothing of this module's state, so the registry is left
\* empty here; OnHostnameChange joins the specifications that are about callbacks.
Next ==
    \/ PluginInit
    \/ PluginShutdown
    \/ IsAvailable
    \/ GetHostname
    \/ Expose
    \/ Unexpose
    \/ GetUrl
    \/ GetStatus
    \/ GetPort
    \/ Tick
    \/ ProcessError

Spec == Init /\ [][Next]_vars

\* The monitor and the lifecycle, with other plugins registering their callbacks.
\* The funnel a tick finds is the one init exposes from the configuration, by the
\* startFunnel that expose runs as well; the lookups change nothing.
NextCb ==
    \/ PluginInit
    \/ PluginShutdown
    \/ Unexpose
    \/ OnHostnameChange
    \/ Tick
    \/ ProcessError

SpecCb == Init /\ [][NextCb]_vars

----------------------------------------------------------------------------
(* The counters of stats.ts, as the plugin's callers and the tests use them *)

ResetStats ==
    /\ \E now \in Times :
          /\ now >= stats.startedAt
          /\ stats' = resetStats(now)
    /\ given' = [ k \in StatKeys |-> 0 ]
    \* the object a caller holds is no longer the module's
    /\ snapshot' = IF snapshot = Null THEN Null
                   ELSE Some([ Get(snapshot) EXCEPT !.alias = FALSE ])
    /\ UNCHANGED << pluginVars, view, agent, raceVars >>

\* The counters are capped so that the state space is finite.
IncrementStat ==
    \E key \in StatKeys, amount \in Amounts :
       /\ given[key] + AmountOf(amount) <= MaxCount
       /\ stats' = incrementStat(stats, key, amount)
       /\ given' = [ given EXCEPT ![key] = @ + AmountOf(amount) ]
       /\ snapshot' = IF snapshot # Null /\ Get(snapshot).alias
                      THEN Some([ Get(snapshot) EXCEPT !.val = stats' ])
                      ELSE snapshot
       /\ UNCHANGED << pluginVars, view, agent, raceVars >>

GetStats ==
    /\ snapshot' = Some(getStats(stats))
    /\ UNCHANGED << pluginVars, stats, given, view, agent, raceVars >>

\* The caller writes into the object it got (stats.test.ts, line 49); a write
\* into the module's own object is a write into stats.
MutateSnapshot ==
    /\ snapshot # Null
    /\ \E key \in StatKeys :
          /\ Get(snapshot).val[key] # Scribble
          /\ snapshot' = Some([ Get(snapshot) EXCEPT !.val[key] = Scribble ])
          /\ stats' = IF Get(snapshot).alias THEN [ stats EXCEPT ![key] = Scribble ]
                      ELSE stats
    /\ UNCHANGED << pluginVars, given, view, agent, raceVars >>

NextStats ==
    \/ ResetStats
    \/ IncrementStat
    \/ GetStats
    \/ MutateSnapshot

SpecStats == Init /\ [][NextStats]_vars

----------------------------------------------------------------------------
(* The response builders, each given its arguments and then applied *)

Given(fn, args) == [ fn |-> fn, args |-> args, done |-> FALSE, out |-> Null ]

InitNodeStatus ==
    /\ Loaded
    /\ view \in { Given("buildNodeStatusResponse", a) : a \in NodeStatusArgs }

BuildNodeStatusResponse ==
    /\ view.fn = "buildNodeStatusResponse" /\ ~view.done
    /\ view' = [ view EXCEPT !.done = TRUE,
                              !.out = buildNodeStatusResponse(view.args.json,
                                                              view.args.available,
                                                              view.args.hostname) ]
    /\ UNCHANGED << pluginVars, statsVars, agent, raceVars >>

SpecNodeStatus == InitNodeStatus /\ [][BuildNodeStatusResponse]_vars

InitUptime ==
    /\ Loaded
    /\ view \in { Given("formatUptime", ms) : ms \in UptimeInputs }

FormatUptime ==
    /\ view.fn = "formatUptime" /\ ~view.done
    /\ view' = [ view EXCEPT !.done = TRUE, !.out = formatUptime(view.args) ]
    /\ UNCHANGED << pluginVars, statsVars, agent, raceVars >>

SpecUptime == InitUptime /\ [][FormatUptime]_vars

----------------------------------------------------------------------------
(* Calls of the extension that overlap: expose from its call to its awaits,    *)
(* unexpose, and the 'error' event of a process that did not start.  The path  *)
(* of an expose plays no part here and is left out ("/").                      *)

\* expose(port) up to the await of the probe.
ExposeCall(c) ==
    /\ calls[c].pc = "idle"
    /\ \E port \in Ports : \E env \in ProbeEnvs(Cur) :
          LET r == checkTailscaleAvailable(Cur, env)
          IN /\ Store(r.st, "expose")
             /\ calls' = [ calls EXCEPT ![c] = [ pc |-> "probed", port |-> port,
                                                 ok |-> r.ret ] ]
    /\ UNCHANGED << last, procs, statsVars, view, agent >>

\* The spawn and the record (lines 186-223), which end the call.
ExposeSpawn(c) ==
    \E spawn \in SpawnOutcomes :
       /\ Store(startFunnelSpawn(Cur, calls[c].port, Slash, spawn).st, "expose")
       /\ procs' = AfterSpawn(procs, calls[c].port, spawn.kind)
       /\ calls' = [ calls EXCEPT ![c] = NoCall ]

\* From the await of the probe: the checks of lines 161-176, then the stop of
\* the funnel of another port up to its await, or the spawn at once.
ExposeResume(c) ==
    /\ calls[c].pc = "probed"
    /\ IF ~calls[c].ok \/ startFunnelEnds(Cur, calls[c].port)
       THEN /\ calls' = [ calls EXCEPT ![c] = NoCall ]
            /\ UNCHANGED << pluginVars, procs >>
       ELSE IF FunnelActive(Cur)
       THEN /\ \E env \in StopEnvs(Cur, Rec(Cur).port) :
                  Store(startFunnelRetire(Cur, env), "expose")
            /\ procs' = AfterStop(procs, Cur, Rec(Cur).port)
            /\ calls' = [ calls EXCEPT ![c].pc = "stopped" ]
            /\ UNCHANGED last
       ELSE ExposeSpawn(c) /\ UNCHANGED last
    /\ UNCHANGED << statsVars, view, agent >>

\* From the await of the stop.
ExposeFinish(c) ==
    /\ calls[c].pc = "stopped"
    /\ ExposeSpawn(c)
    /\ UNCHANGED << last, statsVars, view, agent >>

\* unexpose(port): stopFunnel has no await.
UnexposeCall ==
    /\ \E port \in Ports : \E env \in StopEnvs(Cur, port) :
          /\ Store(stopFunnel(Cur, port, env).st, "unexpose")
          /\ procs' = AfterStop(procs, Cur, port)
    /\ UNCHANGED << last, calls, statsVars, view, agent >>

\* The 'error' event of a process that did not start (lines 199-204).
ErrorEvent ==
    /\ \E e \in procs :
          /\ e.state = "failing"
          /\ LET s == onProcessError(Cur, e.port)
                 rest == procs \ { e }
             IN /\ Store([ s EXCEPT !.errPending =
                                     { x.port : x \in { y \in rest : y.state = "failing" } } ],
                         "processError")
                /\ procs' = IF s.activeFunnel # activeFunnel THEN NoneCurrent(rest)
                            ELSE rest
    /\ UNCHANGED << last, calls, statsVars, view, agent >>

\* The calls of the callers alone: every process starts, or its event is late.
NextExpose ==
    \/ \E c \in Callers : ExposeCall(c)
    \/ \E c \in Callers : ExposeResume(c)
    \/ \E c \in Callers : ExposeFinish(c)
    \/ UnexposeCall

SpecExpose == Init /\ [][NextExpose]_vars

\* The same with the 'error' events.
NextRace ==
    \/ \E c \in Callers : ExposeCall(c)
    \/ \E c \in Callers : ExposeResume(c)
    \/ \E c \in Callers : ExposeFinish(c)
    \/ UnexposeCall
    \/ ErrorEvent

SpecRace == Init /\ [][NextRace]_vars

\* init with no port to expose, run without another call in between: the verdict
\* and the hostname are cached and the Monitor is scheduled.  The host calls it
\* while no timer is live, so that no timer is left behind by a second init.
InitCall ==
    /\ liveTimers = {}
    /\ calls[Host].pc = "idle"
    /\ \E pluginCtx \in PluginCtxs, config \in { c \in Configs : ~initExposes(Cur, c) } :
         \E env \in InitEnvs(Cur, config) :
            Store(init(Cur, pluginCtx, config, env), "init")
    /\ UNCHANGED << last, raceVars, statsVars, view, agent >>

\* A tick of a live timer.  Past the await of line 142 it writes nothing.
TickRun ==
    /\ liveTimers # {}
    /\ \E status \in StatusOutputs :
          \E env \in PollEnvs(Cur, status) :
             Store(pollHostname(Cur, status, env), "tick")
    /\ UNCHANGED << last, raceVars, statsVars, view, agent >>

\* shutdown up to the await of the stop (line 465), or to its end when the slot
\* is empty and nothing is awaited.
ShutdownCall ==
    /\ calls[Host].pc = "idle"
    /\ IF HasFunnel(Cur)
       THEN /\ \E env \in StopEnvs(Cur, Rec(Cur).port) :
                  Store(shutdownStop(Cur, env), "shutdown")
            /\ procs' = AfterStop(procs, Cur, Rec(Cur).port)
            /\ calls' = [ calls EXCEPT ![Host].pc = "closing" ]
       ELSE /\ Store(shutdownReset(shutdownStop(Cur, NoStop)), "shutdown")
            /\ UNCHANGED raceVars
    /\ UNCHANGED << last, statsVars, view, agent >>

\* shutdown from the await of the stop (lines 468-471).
ShutdownFinish ==
    /\ calls[Host].pc = "closing"
    /\ Store(shutdownReset(Cur), "shutdown")
    /\ calls' = [ calls EXCEPT ![Host] = NoCall ]
    /\ UNCHANGED << last, procs, statsVars, view, agent >>

\* expose, the Monitor and shutdown, each going on from its await in any order.
NextLife ==
    \/ \E c \in Callers : ExposeCall(c)
    \/ \E c \in Callers : ExposeResume(c)
    \/ \E c \in Callers : ExposeFinish(c)
    \/ InitCall
    \/ TickRun
    \/ ShutdownCall
    \/ ShutdownFinish

SpecLife == Init /\ [][NextLife]_vars

----------------------------------------------------------------------------
(* The Monitor against an agent that settles: until then every report is       *)
(* possible, from then on the agent is running and reports one hostname.  No   *)
(* shutdown is called.                                                         *)

\* The reports the agent can give to `tailscale status --json` now.
Reports == IF agent = Null THEN StatusOutputs ELSE { Get(agent).status }

\* A probe that runs finds the binary and one of these reports once the agent
\* has settled; a cached verdict runs no probe.
ProbeAgrees(pe) ==
    available # Null \/ agent = Null \/ (pe.which /\ pe.status \in Reports)

\* The agent settles: it is running and reports one DNS name from now on.  The
\* hostname cached at that moment is noted.
AgentSettles ==
    /\ agent = Null
    /\ \E status \in { o \in StatusOutputs : PolledHostname(o) # Null } :
          agent' = Some([ status |-> status, at |-> hostname ])
    /\ UNCHANGED << pluginVars, statsVars, view, raceVars >>

\* init, called until the Monitor is scheduled.  The commands a call issues are
\* not kept here: calls that leave the same module state are one step.
DriftInit ==
    /\ liveTimers = {}
    /\ \E s \in UNION { { Settled(init(Cur, pluginCtx, config, env)) :
                              pluginCtx \in PluginCtxs,
                              env \in { e \in InitEnvs(Cur, config) : ProbeAgrees(e.probe) } }
                          : config \in Configs } :
          Store(s, "init")
    /\ UNCHANGED << last, statsVars, view, agent, raceVars >>

DriftExpose ==
    /\ \E s \in UNION { { Settled(startFunnel(Cur, port, IF path = Null THEN Slash ELSE path,
                                              env).st) :
                              path \in PathArgs,
                              env \in { e \in StartEnvs(Cur, port) : ProbeAgrees(e.probe) } }
                          : port \in Ports } :
          Store(s, "expose")
    /\ UNCHANGED << last, statsVars, view, agent, raceVars >>

\* A tick of a live timer reads what the agent reports.
DriftTick ==
    /\ liveTimers # {}
    /\ \E s \in UNION { { Settled(pollHostname(Cur, status, env)) :
                              env \in PollEnvs(Cur, status) }
                          : status \in Reports } :
          Store(s, "tick")
    /\ UNCHANGED << last, statsVars, view, agent, raceVars >>

NextDrift ==
    \/ AgentSettles
    \/ DriftInit
    \/ DriftExpose
    \/ DriftTick

SpecDrift == Init /\ [][NextDrift]_vars

\* setInterval keeps the ticks coming: a tick that would change the state is
\* not put off for ever.
FairDrift == SpecDrift /\ WF_vars(DriftTick)

----------------------------------------------------------------------------
(* Properties.  A call is a function of the module state and of what its      *)
(* commands return, so a contract of a call is stated over every reachable    *)
(* state, every argument and every outcome of its commands.                   *)

\* The paths startFunnel receives from expose (path || "/").
Paths == { IF a = Null THEN Slash ELSE a : a \in PathArgs }

IsFunnelCmd(e) == e.cmd \in { "off", "kill", "spawn" }
IsExposure(e) == e.cmd \in { "off", "spawn" }
\* The commands of a kind, each as <<command, argument, slot when issued>>.
Issued(cmds) == [ i \in 1..Len(cmds) |-> << cmds[i].cmd, cmds[i].arg, cmds[i].slot >> ]
\* The commands, each as <<command, argument>>.
Named(cmds) == [ i \in 1..Len(cmds) |-> << cmds[i].cmd, cmds[i].arg >> ]

\* C1: after any sequence of expose, unexpose, tick, init and shutdown the slot
\* holds at most one ActiveFunnel record, and getStatus().funnels has zero or one
\* element, the record of the slot.
C1_SingleSlot ==
    /\ Len(activeFunnel) <= 1
    /\ Len(getStatus(Cur).funnels) <= 1
    /\ getStatus(Cur).funnels = activeFunnel
    /\ HasFunnel(Cur) => Rec(Cur).port \in Ports

\* C1 witness: an expose that replaced the funnel of another port has settled.
C1_Witness ==
    /\ last.op = "expose" /\ last.ok /\ last.was \notin { 0, last.port }
    /\ Len(getStatus(Cur).funnels) = 1

\* C2: an expose(P2) called while a record for another port P1 exists issues the
\* turn-off command for P1, then the signal to the recorded pid (when one is
\* recorded), each while the slot still holds P1, and only then the spawn for P2,
\* with the slot empty; the slot never holds more than one record.
C2_RetireBeforeSpawn ==
    \A port \in Ports, path \in Paths :
       (HasFunnel(Cur) /\ Rec(Cur).port # port) =>
          \A env \in StartEnvs(Cur, port) :
             LET r == startFunnel(Cur, port, path, env)
                 old == Rec(Cur)
             IN /\ Issued(SelectSeq(r.st.cmds, IsFunnelCmd)) =
                      << << "off", old.port, old.port >> >>
                      \o (IF old.pid # Null
                          THEN << << "kill", Get(old.pid), old.port >> >> ELSE << >>)
                      \o << << "spawn", port, 0 >> >>
                /\ Len(r.st.activeFunnel) <= 1
                /\ HasFunnel(r.st) => Rec(r.st).port = port

\* C2 witness: an expose of a port has replaced the funnel of another port whose
\* process had a pid.
C2_Witness ==
    /\ last.op = "expose" /\ last.was \notin { 0, last.port }
    /\ last.out.stop \in { "signalled", "failed" } /\ last.out.spawn # "-"

\* C3: with a record for port P, expose(P, any path) runs no command, changes
\* nothing and returns the record's publicUrl; a second expose(P) right after a
\* first one returns the same URL and spawns nothing more.
C3_IdempotentReExpose ==
    \A port \in Ports, path \in Paths :
       /\ (FunnelActive(Cur) /\ Rec(Cur).port = port) =>
             \A env \in StartEnvs(Cur, port) :
                LET r == startFunnel(Cur, port, path, env)
                IN r.ret = Rec(Cur).publicUrl /\ r.st = Cur
       /\ \A env1 \in StartEnvs(Cur, port) :
             LET r1 == startFunnel(Cur, port, path, env1)
             IN r1.ret # Null =>
                  \A path2 \in Paths : \A env2 \in StartEnvs(r1.st, port) :
                     LET r2 == startFunnel(r1.st, port, path2, env2)
                     IN /\ r2.ret = r1.ret
                        /\ r2.st = r1.st
                        /\ CountCmd(r2.st.cmds, "spawn") =
                             (IF FunnelActive(Cur) /\ Rec(Cur).port = port THEN 0 ELSE 1)

\* C3 witness: expose(P) has returned the URL of the record that was there for P.
C3_Witness ==
    /\ last.op = "expose" /\ last.ok /\ last.was = last.port
    /\ last.out.spawn = "-"

\* C4: from an empty slot with the agent available, expose(P1) then expose(P2),
\* P1 # P2, both launched, issue exactly spawn(P1), turn-off(P1), spawn(P2), and
\* leave exactly one record, for P2.
C4_PortSwitchReplaces ==
    \A p1 \in Ports, p2 \in Ports, path1 \in Paths, path2 \in Paths :
       (p1 # p2 /\ ~HasFunnel(Cur)) =>
          \A env1 \in StartEnvs(Cur, p1) :
             LET r1 == startFunnel(Cur, p1, path1, env1)
             IN (env1.spawn.kind \in { "ok", "error" }) =>
                  \A env2 \in StartEnvs(r1.st, p2) :
                     LET r2 == startFunnel(r1.st, p2, path2, env2)
                     IN (env2.spawn.kind \in { "ok", "error" }) =>
                          /\ Named(SelectSeq(r2.st.cmds, IsExposure)) =
                               << << "spawn", p1 >>, << "off", p1 >>, << "spawn", p2 >> >>
                          /\ Len(r2.st.activeFunnel) = 1
                          /\ Rec(r2.st).port = p2
                          /\ r2.ret = Rec(r2.st).publicUrl

\* C4 witness: the second expose of a switch has settled with the record on its port.
C4_Witness ==
    /\ last.op = "expose" /\ last.ok /\ last.was \notin { 0, last.port }
    /\ last.out.stop # "-"
    /\ HasFunnel(Cur) /\ Rec(Cur).port = last.port

\* C5: unexpose(X) with no record, or with a record for another port, returns
\* false, runs no command and changes nothing.
C5_UnexposeUnknownPort ==
    \A port \in Ports :
       (~HasFunnel(Cur) \/ Rec(Cur).port # port) =>
          \A env \in { [ off |-> o, kill |-> k ] : o \in OffOutcomes, k \in KillOutcomes } :
             LET r == stopFunnel(Cur, port, env)
             IN r.ret = FALSE /\ r.st = Cur

\* C5 witness: unexpose of a port has returned false while another port is exposed.
C5_Witness ==
    /\ last.op = "unexpose" /\ ~last.ok
    /\ HasFunnel(Cur) /\ Rec(Cur).port # last.port

\* C6: unexpose(P) on a record for port P ends with the slot empty and returns
\* true, whatever the turn-off command returns (success, non-zero exit, timeout)
\* and whatever becomes of the signal (delivered, process gone, no pid recorded);
\* the turn-off command for P is issued in each case.
C6_TeardownAlwaysClears ==
    \A port \in Ports :
       (HasFunnel(Cur) /\ Rec(Cur).port = port) =>
          \A env \in StopEnvs(Cur, port) :
             LET r == stopFunnel(Cur, port, env)
             IN /\ r.ret = TRUE
                /\ r.st.activeFunnel = Null
                /\ Named(SelectSeq(r.st.cmds, IsExposure)) = << << "off", port >> >>

\* C6 witness: an unexpose whose turn-off command timed out and whose process was
\* already gone has returned true and left the slot empty.
C6_Witness ==
    /\ last.op = "unexpose" /\ last.ok /\ last.was = last.port
    /\ last.out.stop = "failed"
    /\ ~HasFunnel(Cur)

\* C7: an expose that finds the verdict unavailable (cached, or given by its own
\* probe), or that finds no hostname known after the probe, returns null, spawns
\* nothing, issues no turn-off command or signal and leaves the slot as it was.
C7_UnavailableShortCircuits ==
    \A port \in Ports, path \in Paths :
       \A env \in StartEnvs(Cur, port) :
          LET p == checkTailscaleAvailable(Cur, env.probe)
              r == startFunnel(Cur, port, path, env)
          IN (~p.ret \/ p.st.hostname = Null \/ available = Some(FALSE)) =>
                /\ r.ret = Null
                /\ SelectSeq(r.st.cmds, IsFunnelCmd) = << >>
                /\ r.st.activeFunnel = activeFunnel

\* C7 witness: an expose has returned null on a cached verdict of unavailable.
C7_Witness ==
    /\ last.op = "expose" /\ ~last.ok /\ last.knew
    /\ available = Some(FALSE)

IsProbeCmd(e) == e.cmd \in { "which", "status" }

\* C8: once the verdict is known, until the next shutdown, probe / isAvailable /
\* getHostname / expose give that verdict and run neither `which` nor the status
\* query, whatever the agent would answer; the prober issues at most one status
\* query between two resets; no tick changes the verdict.
C8_ProbeMemoized ==
    /\ statusQueries <= 1
    /\ \A status \in StatusOutputs : \A env \in PollEnvs(Cur, status) :
          LET t == pollHostname(Cur, status, env)
          IN t.available = available /\ SelectSeq(t.cmds, IsProbeCmd) = << >>
    /\ available # Null =>
          \A pe \in AllProbeEnvs :
             /\ checkTailscaleAvailable(Cur, pe) = Result(Cur, Get(available))
             /\ getTailscaleHostname(Cur, pe) = Result(Cur, hostname)
             /\ \A port \in Ports, path \in Paths : \A env \in StartEnvs(Cur, port) :
                   LET r == startFunnel(Cur, port, path, [ env EXCEPT !.probe = pe ])
                   IN /\ r.st.available = available
                      /\ SelectSeq(r.st.cmds, IsProbeCmd) = << >>
                      /\ (available = Some(FALSE) => r.ret = Null)

\* C8 witness: isAvailable was called with the verdict already known and one status
\* query issued since the last reset.
C8_Witness ==
    /\ last.op = "isAvailable" /\ last.knew
    /\ statusQueries = 1 /\ available # Null

PathSuffix(path) == IF path = Slash THEN << >> ELSE path

\* A tick can run, reads a hostname other than the non-null cached one, and the
\* record's URL is https://OLD+S.
DriftWithFunnel(status) ==
    /\ liveTimers # {}
    /\ IsChange(Cur, status)
    /\ HasFunnel(Cur)
    /\ Rec(Cur).publicUrl = Https \o hostname \o PathSuffix(Rec(Cur).path)

DriftPayload(old, new, rec) ==
    [ oldHostname |-> old, newHostname |-> new,
      activePort |-> Some(rec.port),
      publicUrl |-> Https \o new \o PathSuffix(rec.path) ]

\* C9 as claimed: after such a tick the cache is NEW, the URL is https://NEW+S and
\* exactly one notification was emitted, with OLD, NEW, the port and the new URL.
C9_Original ==
    \A status \in StatusOutputs :
       DriftWithFunnel(status) =>
          \A env \in PollEnvs(Cur, status) :
             LET new == PolledHostname(status)
                 t == pollHostname(Cur, status, env)
             IN /\ t.hostname = new
                /\ Rec(t).publicUrl = Https \o new \o PathSuffix(Rec(Cur).path)
                /\ t.notes = << DriftPayload(hostname, new, Rec(Cur)) >>

\* C9 (amended): after such a tick the cache is NEW, the URL is https://NEW+S and
\* the rest of the record is unchanged; exactly one notification with OLD, NEW, the
\* port and the new URL is emitted when the plugin context has an event sink, and
\* none when it has no sink.
C9_HostnameDriftRewrites ==
    \A status \in StatusOutputs :
       DriftWithFunnel(status) =>
          \A env \in PollEnvs(Cur, status) :
             LET new == PolledHostname(status)
                 t == pollHostname(Cur, status, env)
             IN /\ t.hostname = new
                /\ t.activeFunnel =
                     Some([ Rec(Cur) EXCEPT !.publicUrl =
                              Https \o new \o PathSuffix(Rec(Cur).path) ])
                /\ t.notes = IF HasSink(Cur)
                             THEN << DriftPayload(hostname, new, Rec(Cur)) >>
                             ELSE << >>

\* C9 witness: a tick has detected a change with a funnel on a path other than "/"
\* and a sink present; the URL is the one of the new hostname.
C9_Witness ==
    /\ last.op = "tick" /\ last.ok /\ last.was # 0 /\ last.out.emit = "ok"
    /\ HasFunnel(Cur) /\ Rec(Cur).path # Slash
    /\ Rec(Cur).publicUrl = Https \o hostname \o Rec(Cur).path

NoFunnelPayload(old, new) ==
    [ oldHostname |-> old, newHostname |-> new, activePort |-> Null, publicUrl |-> Null ]

\* C10 as claimed: a tick that detects a change with the slot empty updates the
\* cache, emits exactly one notification, with activePort and publicUrl null, and
\* leaves the slot empty.
C10_Original ==
    \A status \in StatusOutputs :
       (liveTimers # {} /\ IsChange(Cur, status) /\ ~HasFunnel(Cur)) =>
          \A env \in PollEnvs(Cur, status) :
             LET new == PolledHostname(status)
                 t == pollHostname(Cur, status, env)
             IN /\ t.hostname = new
                /\ t.activeFunnel = Null
                /\ t.notes = << NoFunnelPayload(hostname, new) >>

\* C10 (amended): such a tick updates the cache and leaves the slot empty; it emits
\* exactly one notification, with activePort and publicUrl null, when the plugin
\* context has an event sink, and none when it has no sink.
C10_DriftNoFunnel ==
    \A status \in StatusOutputs :
       (liveTimers # {} /\ IsChange(Cur, status) /\ ~HasFunnel(Cur)) =>
          \A env \in PollEnvs(Cur, status) :
             LET new == PolledHostname(status)
                 t == pollHostname(Cur, status, env)
             IN /\ t.hostname = new
                /\ t.activeFunnel = Null
                /\ t.notes = IF HasSink(Cur)
                             THEN << NoFunnelPayload(hostname, new) >>
                             ELSE << >>

\* C10 witness: a tick has detected a change with the slot empty and a sink present.
C10_Witness ==
    /\ last.op = "tick" /\ last.ok /\ last.was = 0 /\ last.out.emit # "-"
    /\ ~HasFunnel(Cur) /\ hostname # Null

\* C11: a tick that reads a hostname H from a running agent while no hostname is
\* cached sets the cache to H, emits no notification, invokes no callback and
\* leaves the slot as it was, whatever the registry holds and whether or not the
\* context has an event sink.
C11_FirstTickSilent ==
    \A status \in StatusOutputs :
       (hostname = Null /\ PolledHostname(status) # Null) =>
          \A env \in AllPollEnvs(Cur) :
             LET t == pollHostname(Cur, status, env)
             IN /\ t.hostname = PolledHostname(status)
                /\ t.notes = << >>
                /\ t.cbs = << >>
                /\ t.activeFunnel = activeFunnel

\* C11 witness: a tick has set the hostname from unset, with a callback registered
\* and an event sink present.
C11_Witness ==
    /\ last.op = "tick" /\ ~last.had /\ hostname # Null
    /\ hostnameChangeCallbacks # << >> /\ HasSink(Cur)

\* A status on which a tick has nothing to do: the query failed, its output does
\* not parse, the backend is not running, there is no DNS name, or the name is
\* the cached one.
NothingNew(status) ==
    \/ status.kind \in { "fail", "garbage" }
    \/ status.BackendState # "Running"
    \/ StripDot(status.DNSName) \in { Null, hostname }

\* C12: a tick on such a status leaves the cached hostname, the verdict, the slot
\* and the registry (and the rest of the module state) unchanged, emits no
\* notification and invokes no callback.
C12_NoChangeTick ==
    \A status \in StatusOutputs :
       NothingNew(status) =>
          \A env \in AllPollEnvs(Cur) :
             LET t == pollHostname(Cur, status, env)
             IN /\ t.hostname = hostname
                /\ t.available = available
                /\ t.activeFunnel = activeFunnel
                /\ t.hostnameChangeCallbacks = hostnameChangeCallbacks
                /\ [ t EXCEPT !.cmds = << >> ] = Cur
                /\ t.notes = << >> /\ t.cbs = << >>

\* C12 witness: a tick has ended without a change while a hostname was cached, a
\* funnel was exposed, a callback was registered and a sink was present.
C12_Witness ==
    /\ last.op = "tick" /\ ~last.ok /\ last.had /\ last.was # 0
    /\ hostnameChangeCallbacks # << >> /\ HasSink(Cur)

\* The invocations of a tick, each as <<callback, old hostname, new hostname>>.
Invoked(cbs) ==
    [ i \in 1..Len(cbs) |-> << cbs[i].cb, cbs[i].oldHostname, cbs[i].newHostname >> ]

\* C13: on a genuine hostname change every callback of the registry is invoked
\* exactly once with (old, new), in insertion order, whichever of them raise; the
\* tick ends without an error and leaves the timer scheduled.
C13_FanOut ==
    \A status \in StatusOutputs :
       IsChange(Cur, status) =>
          \A env \in PollEnvs(Cur, status) :
             LET t == pollHostname(Cur, status, env)
             IN /\ Invoked(t.cbs) =
                     [ i \in 1..Len(hostnameChangeCallbacks) |->
                         << hostnameChangeCallbacks[i], hostname, PolledHostname(status) >> ]
                /\ ~t.exc
                /\ t.pollTimer = pollTimer /\ t.liveTimers = liveTimers

\* Every way the commands of a stop can end.
AllStopEnvs == { [ off |-> o, kill |-> k ] : o \in OffOutcomes, k \in KillOutcomes }

\* C14: after a shutdown the timer the module held is cancelled and its handle
\* dropped, the registry is empty, the slot is empty, hostname and verdict are
\* unknown again and the extension is released; a second shutdown runs no command
\* (no turn-off, no signal), raises no error and leaves that state unchanged.
C14_ShutdownIdempotent ==
    \A env \in StopEnvs(Cur, SlotPort(Cur)) :
       LET s1 == shutdown(Cur, env)
       IN /\ s1.pollTimer = Null
          /\ pollTimer # Null => Get(pollTimer) \notin s1.liveTimers
          /\ s1.hostnameChangeCallbacks = << >>
          /\ s1.activeFunnel = Null
          /\ s1.hostname = Null /\ s1.available = Null
          /\ s1.ctx = Null /\ (ctx # Null => ~s1.registered)
          /\ ~s1.exc
          /\ \A env2 \in AllStopEnvs :
                LET s2 == shutdown(Settled(s1), env2)
                IN s2 = Settled(s1)

\* C14 witness: a shutdown has settled that found a timer, a registered callback
\* and a funnel whose turn-off timed out and whose process was gone.
C14_Witness ==
    /\ last.op = "shutdown" /\ last.was # 0 /\ last.regd > 0
    /\ last.out.stop = "failed"
    /\ pollTimer = Null /\ hostnameChangeCallbacks = << >> /\ ~HasFunnel(Cur)
    /\ hostname = Null /\ available = Null

\* What the agent and the spawn would answer an init that asked them.
WillingEnvs ==
    { [ probe |-> pe,
        start |-> [ probe |-> NoProbe, stop |-> NoStop, spawn |-> sp ] ] :
        pe \in AllProbeEnvs, sp \in SpawnOutcomes }

\* C15: an init with enabled = false stores the context and nothing else: it runs
\* no command (no probe, so the verdict stays as it was, unknown after a load or a
\* reset), registers no extension, exposes no funnel and schedules no timer,
\* whatever the configuration says besides and whatever the agent would answer.
C15_DisabledDoesNothing ==
    \A pluginCtx \in PluginCtxs, config \in Configs :
       ~config.enabled =>
          \A env \in WillingEnvs :
             LET s1 == init(Cur, pluginCtx, config, env)
             IN /\ s1.cmds = << >>
                /\ s1.available = available
                /\ s1.registered = registered
                /\ s1.activeFunnel = activeFunnel
                /\ s1.pollTimer = pollTimer /\ s1.liveTimers = liveTimers
                /\ s1 = [ Cur EXCEPT !.ctx = Some(pluginCtx) ]

\* C15 witness: an init has settled with the verdict still unknown (an enabled
\* init always ends with a verdict), nothing registered, no funnel and no timer.
C15_Witness ==
    /\ last.op = "init" /\ ~last.ok
    /\ ctx # Null /\ available = Null
    /\ ~registered /\ ~HasFunnel(Cur) /\ pollTimer = Null /\ liveTimers = {}

\* C16: an expose(P) whose spawn throws leaves the slot empty (also when it had
\* retired the funnel of another port before), lets no exception out and returns
\* null.
C16_SpawnFailureRollsBack ==
    \A port \in Ports, path \in Paths :
       \A env \in StartEnvs(Cur, port) :
          env.spawn.kind = "throw" =>
             LET r == startFunnel(Cur, port, path, env)
             IN /\ CountCmd(r.st.cmds, "spawn") = 1
                /\ r.st.activeFunnel = Null
                /\ ~r.st.exc
                /\ r.ret = Null

\* C16 witness: an expose whose spawn threw, after it had retired the funnel of
\* another port, has returned null and left the slot empty.
C16_Witness ==
    /\ last.op = "expose" /\ last.out.spawn = "throw" /\ ~last.ok
    /\ last.was \notin { 0, last.port }
    /\ ~HasFunnel(Cur)

\* C17: whenever a record exists, a hostname is cached and the record's publicUrl
\* is "https://" + the cached hostname + the path suffix (nothing for the path
\* "/", the path itself otherwise); every expose that returns a URL and every tick
\* that rewrites one leaves a record of that form, so the substitution of the
\* monitor gives the URL a rebuild from the new hostname and the path would give.
C17_PublicUrlDerived ==
    /\ HasFunnel(Cur) =>
          /\ hostname # Null
          /\ Rec(Cur).publicUrl = Https \o hostname \o PathSuffix(Rec(Cur).path)
    /\ \A status \in StatusOutputs : \A env \in PollEnvs(Cur, status) :
          LET t == pollHostname(Cur, status, env)
          IN HasFunnel(t) =>
                Rec(t).publicUrl = Https \o t.hostname \o PathSuffix(Rec(t).path)
    /\ \A port \in Ports, path \in Paths : \A env \in StartEnvs(Cur, port) :
          LET r == startFunnel(Cur, port, path, env)
          IN r.ret # Null =>
                /\ r.ret = Rec(r.st).publicUrl
                /\ r.ret = Https \o r.st.hostname \o PathSuffix(Rec(r.st).path)

\* C17 witness: a tick has rewritten the URL of a funnel on the path "/" and the
\* URL is "https://" + the new hostname.
C17_Witness ==
    /\ last.op = "tick" /\ last.ok /\ last.was # 0
    /\ HasFunnel(Cur) /\ Rec(Cur).path = Slash
    /\ Rec(Cur).publicUrl = Https \o hostname

Lookups == { "getUrl", "getStatus", "getPort" }

\* What the lookups give, said of the module state: the URL of the record when
\* its port is the one asked for, the port of the record, the verdict (false
\* while unknown), the hostname and the records of the slot.
LookupsAgree ==
    /\ \A port \in Ports :
          getUrl(Cur, port) =
             (IF activeFunnel # Null /\ activeFunnel[1].port = port
              THEN activeFunnel[1].publicUrl ELSE Null)
    /\ getPort(Cur) = (IF activeFunnel # Null THEN Some(activeFunnel[1].port) ELSE Null)
    /\ getStatus(Cur).available = (available = Some(TRUE))
    /\ getStatus(Cur).hostname = hostname
    /\ getStatus(Cur).funnels = activeFunnel /\ Len(getStatus(Cur).funnels) <= 1

\* C18: getUrl, getPort and getStatus agree with the record in every state, and a
\* call of one of them changes nothing of the module state and issues no status
\* query.
C18_QueriesPure ==
    /\ []LookupsAgree
    /\ [][last'.op \in Lookups =>
            UNCHANGED << ctx, hostname, available, activeFunnel, pollTimer,
                         hostnameChangeCallbacks, registered, liveTimers, errPending,
                         statusQueries >>]_vars

\* C18 witness: getUrl(P) has given a URL with the record on port P, while the
\* other port gets null.
C18_Witness ==
    /\ last.op = "getUrl" /\ last.ok
    /\ HasFunnel(Cur) /\ Rec(Cur).port = last.port
    /\ \E port \in Ports : port # last.port /\ getUrl(Cur, port) = Null

\* The URLs expose can return.
Urls == { PublicUrl(h, p) : h \in Hosts, p \in Paths }

\* C19: whatever the collaborators do (the status query fails or gives garbage,
\* the spawn throws, the turn-off fails or times out, the signal fails, the
\* emission rejects, callbacks raise), isAvailable, getHostname, expose, unexpose,
\* a tick and shutdown end without an exception leaving them, the first four with
\* a value of their kind: true or false, a hostname or null, a URL or null.
C19_NoErrorEscapes ==
    /\ \A pe \in AllProbeEnvs :
          /\ LET r == checkTailscaleAvailable(Cur, pe)
             IN ~r.st.exc /\ r.ret \in BOOLEAN
          /\ LET r == getTailscaleHostname(Cur, pe)
             IN ~r.st.exc /\ r.ret \in Hosts \cup { Null }
    /\ \A port \in Ports, path \in Paths : \A env \in StartEnvs(Cur, port) :
          LET r == startFunnel(Cur, port, path, env)
          IN ~r.st.exc /\ r.ret \in Urls \cup { Null }
    /\ \A port \in Ports : \A env \in AllStopEnvs :
          LET r == stopFunnel(Cur, port, env)
          IN ~r.st.exc /\ r.ret \in BOOLEAN
    /\ \A status \in StatusOutputs : \A env \in AllPollEnvs(Cur) :
          ~pollHostname(Cur, status, env).exc
    /\ \A env \in AllStopEnvs : ~shutdown(Cur, env).exc

\* C19 witness: a tick whose emission rejected, with callbacks registered, has
\* settled with the new hostname cached.
C19_Witness ==
    /\ last.op = "tick" /\ last.ok /\ last.out.emit = "reject" /\ last.regd > 0
    /\ hostname # Null

\* C20: a cached hostname is never set back to null by a probe, an expose, an
\* unexpose or a tick: a step that is not a shutdown leaves a non-null hostname
\* non-null.
C20_HostnameSticky ==
    [][(hostname # Null /\ last'.op # "shutdown") => hostname' # Null]_vars

\* C21: while a record lives (from the expose that creates it to the stop or
\* error event that destroys it, so over every step that spawns nothing and
\* leaves a record in place) its port, path, active flag and process handle
\* stay as they are, and only a tick changes its URL; a tick neither creates nor
\* destroys the record and changes nothing but the cached hostname and that URL:
\* not the verdict, the context, the timers, the registry or the registration.
C21_LiveRecordFrame ==
    [][/\ (activeFunnel # Null /\ activeFunnel' # Null /\ last'.out.spawn = "-") =>
            /\ Get(activeFunnel') =
                   [ Get(activeFunnel) EXCEPT !.publicUrl = Get(activeFunnel').publicUrl ]
            /\ last'.op # "tick" => activeFunnel' = activeFunnel
       /\ last'.op = "tick" =>
            /\ (activeFunnel' = Null) <=> (activeFunnel = Null)
            /\ UNCHANGED << ctx, available, pollTimer, hostnameChangeCallbacks,
                            registered, liveTimers, errPending >>]_vars

\* C21 witness: a tick has rewritten the URL of a live record, with the verdict
\* known; the record is on the port it was on.
C21_Witness ==
    /\ last.op = "tick" /\ last.ok /\ last.was # 0 /\ available = Some(TRUE)
    /\ HasFunnel(Cur) /\ Rec(Cur).port = last.was /\ Rec(Cur).active
    /\ Rec(Cur).publicUrl = PublicUrl(hostname, Rec(Cur).path)

\* C22: init sets an interval timer exactly when the plugin is enabled, the probe
\* succeeded and pollIntervalSeconds (60 when absent) is greater than 0, and the
\* timer it sets is the one pollTimer then holds; an init that sets none leaves
\* pollTimer and the live timers as they were.  So with pollIntervalSeconds = 0
\* and no timer live when init is called, no timer is live when it settles: no
\* tick can run, and nothing changes the hostname or the URL through polling.
C22_PollScheduling ==
    liveTimers # TimerIds =>
       \A pluginCtx \in PluginCtxs, config \in Configs :
          \A env \in InitEnvs(Cur, config) :
             LET t == init(Cur, pluginCtx, config, env)
                 scheduled == t.liveTimers # liveTimers
             IN /\ scheduled <=> /\ config.enabled
                                 /\ t.available = Some(TRUE)
                                 /\ PollSeconds(config) > 0
                /\ scheduled => /\ t.pollTimer # Null
                                /\ t.liveTimers = liveTimers \cup { Get(t.pollTimer) }
                                /\ Get(t.pollTimer) \notin liveTimers
                /\ ~scheduled => t.pollTimer = pollTimer /\ t.liveTimers = liveTimers
                /\ (PollSeconds(config) = 0 /\ liveTimers = {}) => t.liveTimers = {}

\* C22 witness: an init with pollIntervalSeconds = 0 has settled with the probe
\* succeeded and the extension registered, and no timer is set or live.
C22_Witness ==
    /\ last.op = "init" /\ last.ok /\ available = Some(TRUE) /\ registered
    /\ pollTimer = Null /\ liveTimers = {}

\* C23: an init spawns at most one process; it spawns only when the probe
\* succeeded and the configuration has an expose entry, and then for the port of
\* that entry, the first element in the array form (a later element is never
\* exposed); a record init creates or replaces is on that port.  When the probe
\* reports unavailable, init issues no funnel command, the slot is empty and the
\* extension is not registered when it settles.
C23_AutoExpose ==
    liveTimers # TimerIds =>
       \A pluginCtx \in PluginCtxs, config \in Configs :
          \A env \in InitEnvs(Cur, config) :
             LET p == checkTailscaleAvailable([ Cur EXCEPT !.ctx = Some(pluginCtx) ],
                                             env.probe)
                 t == init(Cur, pluginCtx, config, env)
                 spawns == SelectSeq(t.cmds, LAMBDA e : e.cmd = "spawn")
                 items == config.expose.items
             IN /\ Len(spawns) <= 1
                /\ Len(spawns) = 1 =>
                      /\ config.enabled /\ p.ret
                      /\ items # << >> /\ spawns[1].arg = items[1].port
                /\ (t.activeFunnel # activeFunnel /\ HasFunnel(t)) =>
                      /\ items # << >> /\ Rec(t).port = items[1].port
                      /\ Rec(t).path = IF items[1].path = Null THEN Slash
                                        ELSE items[1].path
                /\ (config.enabled /\ ~p.ret) =>
                      /\ SelectSeq(t.cmds, IsFunnelCmd) = << >>
                      /\ t.activeFunnel = Null
                      /\ ~t.registered

\* C23 witness: an init with the array form has spawned and settled with the
\* record on the port and path of the first element.
C23_Witness ==
    /\ last.op = "init" /\ last.ok /\ last.out.spawn = "ok"
    /\ HasFunnel(Cur) /\ Rec(Cur).port = ItemB.port /\ Rec(Cur).path = ItemB.path

\* How often a callback stands in the registry, and how often a tick invoked it.
Registrations(s, cb) ==
    Cardinality({ i \in 1..Len(s.hostnameChangeCallbacks) :
                    s.hostnameChangeCallbacks[i] = cb })
Invocations(s, cb) == Cardinality({ i \in 1..Len(s.cbs) : s.cbs[i].cb = cb })

\* The registry is append-only until shutdown: onHostnameChange(cb) appends cb
\* and changes nothing else, also when cb is registered already; init, unexpose,
\* a tick and the error event leave the registry as it is; shutdown empties it,
\* and a tick invokes only callbacks that stand in the registry, so none of those
\* registered before the last shutdown.
C24_RegistryKept ==
    /\ \A cb \in CallbackIds :
          onHostnameChange(Cur, cb) =
             [ Cur EXCEPT !.hostnameChangeCallbacks = hostnameChangeCallbacks \o << cb >> ]
    /\ liveTimers # TimerIds =>
          \A pluginCtx \in PluginCtxs, config \in Configs :
             \A env \in InitEnvs(Cur, config) :
                init(Cur, pluginCtx, config, env).hostnameChangeCallbacks =
                   hostnameChangeCallbacks
    /\ \A port \in Ports : \A env \in AllStopEnvs :
          /\ stopFunnel(Cur, port, env).st.hostnameChangeCallbacks = hostnameChangeCallbacks
          /\ onProcessError(Cur, port).hostnameChangeCallbacks = hostnameChangeCallbacks
          /\ shutdown(Cur, env).hostnameChangeCallbacks = << >>
    /\ \A status \in StatusOutputs : \A env \in AllPollEnvs(Cur) :
          LET t == pollHostname(Cur, status, env)
          IN /\ t.hostnameChangeCallbacks = hostnameChangeCallbacks
             /\ \A cb \in CallbackIds : Invocations(t, cb) <= Registrations(Cur, cb)

\* On a hostname change a callback registered k times is invoked k times.
C24_InvokedPerRegistration ==
    \A status \in StatusOutputs :
       IsChange(Cur, status) =>
          \A env \in PollEnvs(Cur, status) :
             \A cb \in CallbackIds :
                Invocations(pollHostname(Cur, status, env), cb) = Registrations(Cur, cb)

\* C24: the registry is an append-only ordered list until shutdown, a callback
\* registered k times is invoked k times per hostname change, no call other than
\* shutdown removes an entry, and after shutdown a hostname change invokes none
\* of the callbacks registered before it.
C24_AppendOnlyRegistry == C24_RegistryKept /\ C24_InvokedPerRegistration

\* C27: resetStats leaves every counter 0; in every state, for each key, the
\* counter and what getStats gives for it equal the sum of the amounts given to
\* incrementStat for that key since the last reset (1 for a call without an
\* amount), an incrementStat(key, amount) adds the amount to that counter and
\* leaves the other counters and startedAt alone; and what a caller writes into
\* a snapshot does not reach the counters, so the equality holds after it too.
C27_StatCounters ==
    /\ \A now \in Times : \A k \in StatKeys : resetStats(now)[k] = 0
    /\ \A k \in StatKeys : stats[k] = given[k] /\ getStats(stats).val[k] = given[k]
    /\ \A key \in StatKeys, amount \in Amounts :
          LET st == incrementStat(stats, key, amount)
          IN /\ st[key] = stats[key] + (IF amount = Null THEN 1 ELSE Get(amount))
             /\ \A k \in DOMAIN stats \ { key } : st[k] = stats[k]

\* C27 witness: a caller has overwritten a counter of the snapshot it got, the
\* module's counter is the sum given since a reset, and other counters are 0.
C27_Witness ==
    /\ snapshot # Null /\ Get(snapshot).val.funnelsStarted = Scribble
    /\ stats.funnelsStarted = MaxCount /\ stats.statusChecks = 1
    /\ stats.funnelsStopped = 0 /\ stats.startedAt = 1

\* What of a status text the node-status response may depend on: whether it is
\* absent, empty, parses, and of a status object the BackendState, Self.DNSName,
\* the first of Self.TailscaleIPs and CurrentTailnet.Name.
Projected(json) ==
    IF json.kind # "json" THEN << json.kind >>
    ELSE LET self == IF json.Self = Null THEN NoSelf ELSE Get(json.Self)
         IN << json.kind, json.BackendState, self.DNSName,
               IF self.TailscaleIPs = << >> THEN Null ELSE self.TailscaleIPs[1],
               IF json.CurrentTailnet = Null THEN Null ELSE Get(json.CurrentTailnet).Name >>

NodeStatusKeys ==
    { "online", "available", "hostname", "ip", "tailnetName", "backendState" }

\* No credential of the status text is among or within the strings of a response.
NoCredential(value) ==
    \A k \in DOMAIN value \ { "online", "available" } :
       \A secret \in { AuthUrlValue, AuthKeyValue } : IndexOf(value[k], secret) = 0

\* C25: the node-status response is a function of the BackendState, Self.DNSName,
\* Self.TailscaleIPs[0], CurrentTailnet.Name of the status text and of the cached
\* availability and hostname: a second status text that agrees with the given one
\* in these (and differs in AuthURL, Self.AuthKey, later addresses or whether Self
\* is there at all) gives the same response; the response has no field besides
\* online, available, hostname, ip, tailnetName, backendState, and none of its
\* strings contains the login URL or the auth key.
C25_NoAuthLeak ==
    view.fn = "buildNodeStatusResponse" =>
       LET a == view.args
           r == buildNodeStatusResponse(a.json, a.available, a.hostname)
       IN /\ view.done => view.out = r
          /\ \A other \in NodeStatusTexts :
                Projected(other) = Projected(a.json) =>
                   buildNodeStatusResponse(other, a.available, a.hostname) = r
          /\ ~r.raised => /\ DOMAIN r.value \subseteq NodeStatusKeys
                          /\ NoCredential(r.value)

\* C25 witness: a status object with a login URL and an auth key has been
\* projected, with the agent available and no hostname cached, to a response
\* that shows the node online with its hostname and first address.
C25_Witness ==
    /\ view.fn = "buildNodeStatusResponse" /\ view.done
    /\ view.args.json.kind = "json" /\ view.args.json.AuthURL = AuthUrlValue
    /\ view.args.json.Self # Null /\ Get(view.args.json.Self).AuthKey = AuthKeyValue
    /\ view.out.value.online /\ view.out.value.hostname = HostB
    /\ view.out.value.ip = Ip4

\* The response for an agent that is not there.
Offline(value) ==
    /\ ~value.online /\ ~value.available
    /\ value.hostname = Null /\ value.ip = Null /\ value.tailnetName = Null
\* The response that falls back to the cached availability and hostname.
Fallback(value, a) ==
    /\ ~value.online /\ value.ip = Null /\ value.tailnetName = Null
    /\ value.available = a.available /\ value.hostname = a.hostname

\* C26 as stated: the offline response for a null status text or available =
\* false, the fallback response for every status text that does not parse when
\* available = true, and no exception.
C26_Original ==
    view.fn = "buildNodeStatusResponse" =>
       LET a == view.args
           r == buildNodeStatusResponse(a.json, a.available, a.hostname)
       IN /\ ~r.raised
          /\ (a.json.kind = "null" \/ ~a.available) => Offline(r.value)
          /\ (~JSONParse(a.json).ok /\ a.available) => Fallback(r.value, a)

\* C26: the node-status response never raises; it is the offline response
\* (online and available false, hostname, ip and tailnetName null) for a null or
\* empty status text and whenever available = false; for a non-empty status text
\* that does not parse, with available = true, it has online false, ip and
\* tailnetName null, and the cached availability and hostname.
C26_DegradesGracefully ==
    view.fn = "buildNodeStatusResponse" =>
       LET a == view.args
           r == buildNodeStatusResponse(a.json, a.available, a.hostname)
       IN /\ ~r.raised
          /\ view.done => view.out = r
          /\ (a.json.kind \in { "null", "empty" } \/ ~a.available) => Offline(r.value)
          /\ (~JSONParse(a.json).ok /\ a.json.kind # "empty" /\ a.available) =>
                Fallback(r.value, a)

\* C26 witness: a text that does not parse has been projected with available =
\* true and a cached hostname, and the response carries both.
C26_Witness ==
    /\ view.fn = "buildNodeStatusResponse" /\ view.done
    /\ view.args.json.kind = "garbage" /\ view.args.available
    /\ view.args.hostname = HostA
    /\ ~view.out.raised /\ view.out.value.available /\ view.out.value.hostname = HostA
    /\ ~view.out.value.online

\* C28: with s = floor(ms / 1000), the human-readable uptime is "<d>d <h mod 24>h"
\* when s >= 86400, "<h>h <m mod 60>m" when 3600 <= s < 86400, "<m>m <s mod 60>s"
\* when 60 <= s < 3600 and "<s>s" when s < 60, where m, h and d are the whole
\* minutes, hours and days of s; 60000 ms gives "1m 0s".
C28_UptimeFormat ==
    /\ formatUptime(60000) = << "1", "m", " ", "0", "s" >>
    /\ view.fn = "formatUptime" =>
          LET sec == view.args \div 1000
              human == formatUptime(view.args)
          IN /\ view.done => view.out = human
             /\ sec >= 86400 =>
                   human = Decimal(sec \div 86400) \o << "d", " " >>
                             \o Decimal((sec \div 3600) % 24) \o << "h" >>
             /\ (3600 <= sec /\ sec < 86400) =>
                   human = Decimal(sec \div 3600) \o << "h", " " >>
                             \o Decimal((sec \div 60) % 60) \o << "m" >>
             /\ (60 <= sec /\ sec < 3600) =>
                   human = Decimal(sec \div 60) \o << "m", " " >>
                             \o Decimal(sec % 60) \o << "s" >>
             /\ sec < 60 => human = Decimal(sec) \o << "s" >>

\* C28 witness: an uptime of one day, one hour, 59 minutes and 59.999 seconds has
\* been formatted as "1d 1h".
C28_Witness ==
    /\ view.fn = "formatUptime" /\ view.done
    /\ view.args = 93599999
    /\ view.out = << "1", "d", " ", "1", "h" >>

\* C29: whatever way expose calls overlap at their awaits, every exposure that is
\* up (spawned, and no turn-off command issued for its port since) is the one
\* the record of the slot was made for: no expose puts its record over the
\* record of another expose without retiring it.
C29_NoOrphanedExposure ==
    \A e \in procs : e.state = "up" => (e.cur /\ HasFunnel(Cur) /\ Rec(Cur).port = e.port)

\* C30: the 'error' event of a process clears no record but the one made for
\* that process: not a record a later expose made (for the same port or another),
\* and none of a different port.
C30_LateErrorKeepsRecord ==
    \A e \in procs :
       (e.state = "failing" /\ (~e.cur \/ (HasFunnel(Cur) /\ Rec(Cur).port # e.port))) =>
          onProcessError(Cur, e.port).activeFunnel = activeFunnel

\* C31: in every state, also when expose, a tick and shutdown go on from their
\* awaits in any order, a record in the slot comes with the verdict "available"
\* and a cached hostname; no record is held once shutdown has reset them.
C31_ActiveImpliesAgent ==
    HasFunnel(Cur) => (available = Some(TRUE) /\ hostname # Null)

\* C32: on a genuine hostname change, whether the event sink is absent, takes the
\* funnel:hostname-changed emission or rejects it, the tick leaves the new
\* hostname cached and the publicUrl of an active record rewritten, and every
\* callback of the registry has been invoked with the new hostname.
C32_CallbacksWhateverTheSink ==
    \A status \in StatusOutputs :
       IsChange(Cur, status) =>
          \A env \in PollEnvs(Cur, status) :
             LET t == pollHostname(Cur, status, env)
             IN /\ t.hostname = PolledHostname(status)
                /\ FunnelActive(Cur) =>
                      Rec(t).publicUrl =
                         Replace(Rec(Cur).publicUrl, hostname, PolledHostname(status))
                /\ \A i \in 1..Len(hostnameChangeCallbacks) :
                      \E j \in 1..Len(t.cbs) :
                         /\ t.cbs[j].cb = hostnameChangeCallbacks[i]
                         /\ t.cbs[j].newHostname = PolledHostname(status)

\* getStatus().funnels is the one funnel of port P.
FunnelsShow(s, port) ==
    Len(getStatus(s).funnels) = 1 /\ getStatus(s).funnels[1].port = port

\* C33: in every state the slot holds a record exactly when the record's active
\* field is true, so for every port P the three lookups tell the same:
\* getPort() = P, getUrl(P) # null, and getStatus().funnels = [the funnel of P].
C33_ActiveIffRecord ==
    /\ HasFunnel(Cur) <=> FunnelActive(Cur)
    /\ \A port \in Ports :
          /\ (getPort(Cur) = Some(port)) <=> (getUrl(Cur, port) # Null)
          /\ (getUrl(Cur, port) # Null) <=> FunnelsShow(Cur, port)

\* A funnel of port 8080 is up and each lookup shows it.
C33_Witness ==
    /\ last.op = "expose" /\ activeFunnel # Null
    /\ getPort(Cur) = Some(8080) /\ getUrl(Cur, 8080) # Null /\ FunnelsShow(Cur, 8080)
    /\ getUrl(Cur, 3000) = Null

\* C34: whatever the sequence of init and shutdown calls, init called again
\* without a shutdown in between included, at most one periodic timer is live
\* at a time, and once shutdown has settled none is, so that no tick runs then.
C34_OneTimer ==
    /\ Cardinality(liveTimers) <= 1
    /\ last.op = "shutdown" => liveTimers = {}

\* The cache holds the hostname the settled agent reports, and the publicUrl of
\* a record in the slot is the URL built from it and the record's path.
Reflected ==
    /\ agent # Null
    /\ hostname = PolledHostname(Get(agent).status)
    /\ HasFunnel(Cur) => Rec(Cur).publicUrl = PublicUrl(hostname, Rec(Cur).path)

\* C35: with the Monitor scheduled, ticks that keep firing and no shutdown, once
\* the agent stays running and reports one hostname H, the cached hostname
\* becomes H and stays H, and the publicUrl of any record is the URL built from H.
C35_DriftReflected ==
    [](agent # Null /\ liveTimers # {} => <>[]Reflected)

\* The agent settled on a hostname other than the cached one, and the cache and
\* the record of the slot now show the hostname it settled on.
C35_Witness ==
    /\ Reflected /\ liveTimers # {} /\ HasFunnel(Cur)
    /\ Get(agent).at # Null /\ Get(agent).at # hostname

====
